---------------------------- MODULE Spec2Model ----------------------------
(***************************************************************************)
(* A model of src/tools/flight_data_generator.py: the reference tables,    *)
(* the weighted sampler, the cancellation decision, the delay-minutes      *)
(* model, the per-flight generator and the dataset driver.                 *)
(*                                                                         *)
(* Numbers.  Python floats are modelled in fixed point.  Every factor of   *)
(* the reference tables has at most two decimals and is written in         *)
(* hundredths (0.85 is 85).  Probabilities compared with random() are in   *)
(* millionths.  The places where the fixed point truncates are marked.     *)
(*                                                                         *)
(* Time.  A datetime is a record [ord, hour, minute, second, microsecond], *)
(* ord being the proleptic Gregorian ordinal of its date (date.toordinal). *)
(* An ISO string (datetime.isoformat) is the tuple of the numbers it       *)
(* prints: <<year, month, day, hour, minute, second>>, with the            *)
(* microseconds as a seventh element only when they are not zero.          *)
(*                                                                         *)
(* Randomness.  The shared generator of module random is the variable rng: *)
(* the values it has produced since it was seeded (stream) and how many of *)
(* them the program has consumed (pos).  A value not produced yet is       *)
(* chosen nondeterministically when it is first drawn; seeding again with  *)
(* the same seed rewinds pos, so that the same values come out again.      *)
(***************************************************************************)
EXTENDS Integers, Sequences, FiniteSets, TLC

(***************************************************************************)
(* State                                                                   *)
(***************************************************************************)
VARIABLES
    call,            \* the call under way: its function and, for a helper, its arguments
    pc,              \* where the call is
    start_date,      \* generate_dataset: parameter
    days,            \* generate_dataset: parameter
    flights_per_day, \* generate_dataset: parameter
    day,             \* generate_dataset: the loop variable
    all_flights,     \* generate_dataset: the list being built
    flight_date,     \* generate_flight_data: parameter
    num_flights,     \* generate_flight_data: parameter
    flights,         \* generate_flight_data: the list being built
    ret,             \* what the call returned or raised
    rng,             \* the shared generator of module random
    hist,            \* log: the date and the record of every iteration, in order, and
                     \* how many values the generator had yielded before it
    run,             \* 1, or 2 once the caller has seeded again and repeated the call
    ret1,            \* what the first run returned
    files,           \* the output files: what was written to each, or None
    stdout           \* what was printed, line by line

vars == << call, pc, start_date, days, flights_per_day, day, all_flights,
           flight_date, num_flights, flights, ret, rng, hist, run, ret1,
           files, stdout >>

(***************************************************************************)
(* Reference tables                                                        *)
(***************************************************************************)
AIRLINES ==
    << [code |-> "BA", name |-> "British Airways",   delay_factor |-> 80],
       [code |-> "LH", name |-> "Lufthansa",         delay_factor |-> 70],
       [code |-> "AF", name |-> "Air France",        delay_factor |-> 85],
       [code |-> "DL", name |-> "Delta",             delay_factor |-> 75],
       [code |-> "UA", name |-> "United Airlines",   delay_factor |-> 90],
       [code |-> "AA", name |-> "American Airlines", delay_factor |-> 83],
       [code |-> "EK", name |-> "Emirates",          delay_factor |-> 65],
       [code |-> "TK", name |-> "Turkish Airlines",  delay_factor |-> 88],
       [code |-> "LX", name |-> "Swiss",             delay_factor |-> 60],
       [code |-> "FR", name |-> "Ryanair",           delay_factor |-> 110] >>

AIRPORTS ==
    << [code |-> "LHR", name |-> "London Heathrow",         congestion_factor |-> 130],
       [code |-> "CDG", name |-> "Paris Charles de Gaulle", congestion_factor |-> 120],
       [code |-> "FRA", name |-> "Frankfurt",               congestion_factor |-> 110],
       [code |-> "JFK", name |-> "New York JFK",            congestion_factor |-> 140],
       [code |-> "LAX", name |-> "Los Angeles",             congestion_factor |-> 125],
       [code |-> "DXB", name |-> "Dubai",                   congestion_factor |-> 90],
       [code |-> "SIN", name |-> "Singapore Changi",        congestion_factor |-> 80],
       [code |-> "IST", name |-> "Istanbul",                congestion_factor |-> 115],
       [code |-> "AMS", name |-> "Amsterdam Schiphol",      congestion_factor |-> 105],
       [code |-> "MAD", name |-> "Madrid Barajas",          congestion_factor |-> 110] >>

\* A variant: Clear is given the probability 0.65, the others are left as they are.
WEATHER_CONDITIONS_Clear65 ==
    << [condition |-> "Clear",        probability |-> 65, delay_factor |-> 70],
       [condition |-> "Cloudy",       probability |-> 15, delay_factor |-> 90],
       [condition |-> "Rain",         probability |-> 10, delay_factor |-> 150],
       [condition |-> "Snow",         probability |-> 5,  delay_factor |-> 250],
       [condition |-> "Fog",          probability |-> 5,  delay_factor |-> 200],
       [condition |-> "Thunderstorm", probability |-> 3,  delay_factor |-> 300],
       [condition |-> "High Winds",   probability |-> 2,  delay_factor |-> 180] >>

WEATHER_CONDITIONS ==
    << [condition |-> "Clear",        probability |-> 60, delay_factor |-> 70],
       [condition |-> "Cloudy",       probability |-> 15, delay_factor |-> 90],
       [condition |-> "Rain",         probability |-> 10, delay_factor |-> 150],
       [condition |-> "Snow",         probability |-> 5,  delay_factor |-> 250],
       [condition |-> "Fog",          probability |-> 5,  delay_factor |-> 200],
       [condition |-> "Thunderstorm", probability |-> 3,  delay_factor |-> 300],
       [condition |-> "High Winds",   probability |-> 2,  delay_factor |-> 180] >>

\* A variant: the table starts at hour 1 and has no entry for midnight.
TIME_FACTORS_NoMidnight ==
    (5 :> 70)   @@ (6 :> 75)   @@ (7 :> 90)   @@
    (8 :> 130)  @@ (9 :> 140)  @@ (10 :> 120) @@
    (11 :> 100) @@ (12 :> 100) @@ (13 :> 100) @@ (14 :> 100) @@
    (15 :> 110) @@ (16 :> 130) @@ (17 :> 150) @@ (18 :> 140) @@
    (19 :> 120) @@ (20 :> 110) @@ (21 :> 100) @@ (22 :> 90)  @@
    (23 :> 80)  @@ (1 :> 60)   @@ (2 :> 60)   @@
    (3 :> 60)   @@ (4 :> 60)

\* Hour of day -> factor.
TIME_FACTORS ==
    (5 :> 70)   @@ (6 :> 75)   @@ (7 :> 90)   @@
    (8 :> 130)  @@ (9 :> 140)  @@ (10 :> 120) @@
    (11 :> 100) @@ (12 :> 100) @@ (13 :> 100) @@ (14 :> 100) @@
    (15 :> 110) @@ (16 :> 130) @@ (17 :> 150) @@ (18 :> 140) @@
    (19 :> 120) @@ (20 :> 110) @@ (21 :> 100) @@ (22 :> 90)  @@
    (23 :> 80)  @@ (0 :> 70)   @@ (1 :> 60)   @@ (2 :> 60)   @@
    (3 :> 60)   @@ (4 :> 60)

\* A variant: the factor of Wednesday is 0.0 instead of 0.9.
DAY_FACTORS_ZeroWednesday ==
    (0 :> 100) @@ (1 :> 90) @@ (2 :> 0) @@ (3 :> 100) @@
    (4 :> 130) @@ (5 :> 120) @@ (6 :> 110)

\* Weekday (0 = Monday, 6 = Sunday) -> factor.
DAY_FACTORS ==
    (0 :> 100) @@ (1 :> 90) @@ (2 :> 90) @@ (3 :> 100) @@
    (4 :> 130) @@ (5 :> 120) @@ (6 :> 110)

\* The dictionary local to determine_cancellation.
weather_multiplier ==
    ("Clear" :> 20) @@ ("Cloudy" :> 30) @@ ("Rain" :> 150) @@ ("Snow" :> 1000) @@
    ("Fog" :> 600) @@ ("Thunderstorm" :> 1500) @@ ("High Winds" :> 800)

(***************************************************************************)
(* Python values                                                           *)
(***************************************************************************)
\* None.  An ISO string is a non-empty tuple, so the empty tuple is free.
None == << >>

\* The output files before anything is written: none of them exists.
NoFiles == [json |-> None, csv |-> None, png |-> None]

\* dict.get(key, default)
Get(d, key, default) == IF key \in DOMAIN d THEN d[key] ELSE default

Min(a, b) == IF a <= b THEN a ELSE b

Max(a, b) == IF a >= b THEN a ELSE b

RECURSIVE SumSeq(_)
SumSeq(s) == IF s = << >> THEN 0 ELSE Head(s) + SumSeq(Tail(s))

\* int(round(n / d)) for n >= 0, d > 0: Python rounds a half to the even side.
RoundHalfEven(n, d) ==
    LET q == n \div d
        r == n % d
    IN  IF 2 * r > d THEN q + 1
        ELSE IF 2 * r < d THEN q
        ELSE IF q % 2 = 0 THEN q ELSE q + 1

RECURSIVE SqrtIn(_, _, _)
SqrtIn(n, lo, hi) ==
    IF lo >= hi THEN lo
    ELSE LET mid == (lo + hi + 1) \div 2
         IN  IF mid * mid <= n THEN SqrtIn(n, mid, hi) ELSE SqrtIn(n, lo, mid - 1)

\* math.sqrt of a non-negative number given in ten-thousandths, in hundredths
\* (truncated: the fixed point keeps two decimals).
Sqrt(n) == SqrtIn(n, 0, Min(n, 40000))

(***************************************************************************)
(* datetime                                                                *)
(***************************************************************************)
IsLeap(y) == y % 4 = 0 /\ (y % 100 # 0 \/ y % 400 = 0)

DaysInMonth(y, m) ==
    IF m = 2 THEN (IF IsLeap(y) THEN 29 ELSE 28)
    ELSE IF m \in {4, 6, 9, 11} THEN 30 ELSE 31

DaysBeforeYear(y) ==
    LET p == y - 1 IN p * 365 + p \div 4 - p \div 100 + p \div 400

RECURSIVE DaysBeforeMonth(_, _)
DaysBeforeMonth(y, m) ==
    IF m = 1 THEN 0 ELSE DaysBeforeMonth(y, m - 1) + DaysInMonth(y, m - 1)

\* date(y, m, d).toordinal()
Ymd2Ord(y, m, d) == DaysBeforeYear(y) + DaysBeforeMonth(y, m) + d

\* date.fromordinal(n): <<year, month, day>>
Ord2Ymd(n) ==
    LET n0   == n - 1
        n400 == n0 \div 146097
        r400 == n0 % 146097
        n100 == r400 \div 36524
        r100 == r400 % 36524
        n4   == r100 \div 1461
        r4   == r100 % 1461
        n1   == r4 \div 365
        r1   == r4 % 365
        year == n400 * 400 + n100 * 100 + n4 * 4 + n1 + 1
    IN  IF n1 = 4 \/ n100 = 4 THEN << year - 1, 12, 31 >>
        ELSE LET month == CHOOSE m \in 1..12 :
                              /\ DaysBeforeMonth(year, m) <= r1
                              /\ r1 < DaysBeforeMonth(year, m) + DaysInMonth(year, m)
             IN  << year, month, r1 - DaysBeforeMonth(year, month) + 1 >>

\* datetime.datetime(y, m, d): midnight of that date.
DateTime(y, m, d) ==
    [ord |-> Ymd2Ord(y, m, d), hour |-> 0, minute |-> 0, second |-> 0, microsecond |-> 0]

\* dt + datetime.timedelta(days = n)
AddDays(dt, n) == [dt EXCEPT !.ord = dt.ord + n]

\* dt + datetime.timedelta(minutes = n), n >= 0: the carry runs into the date.
AddMinutes(dt, n) ==
    LET total == dt.hour * 60 + dt.minute + n
    IN  [dt EXCEPT !.ord = dt.ord + total \div 1440,
                   !.hour = (total % 1440) \div 60,
                   !.minute = total % 60]

\* A variant: only the hour and the minute are replaced.
Replace_HourMinuteOnly(dt, h, m) == [dt EXCEPT !.hour = h, !.minute = m]

\* dt.replace(hour = h, minute = m, second = 0, microsecond = 0)
Replace(dt, h, m) == [dt EXCEPT !.hour = h, !.minute = m, !.second = 0, !.microsecond = 0]

\* dt.weekday(): Monday is 0.
Weekday(dt) == (dt.ord + 6) % 7

\* dt.isoformat(): "YYYY-MM-DDTHH:MM:SS", and ".ffffff" when microsecond # 0.
IsoFormat(dt) ==
    LET ymd == Ord2Ymd(dt.ord)
        hms == << ymd[1], ymd[2], ymd[3], dt.hour, dt.minute, dt.second >>
    IN  IF dt.microsecond = 0 THEN hms ELSE Append(hms, dt.microsecond)

(***************************************************************************)
(* The functions of the generator.  A value drawn from the shared          *)
(* generator is a parameter: random() is a fraction [num, den] with        *)
(* 0 <= num < den; random.choice(seq) is the index of the element chosen   *)
(* (from 1); random.randint(a, b) is the integer; the random() inside      *)
(* random.expovariate is given as e = -log(1.0 - random()) in hundredths,  *)
(* which is not negative because 0 <= random() < 1.                        *)
(***************************************************************************)
\* A Python call either returns a value or raises.
Return(v) == [ok |-> TRUE, value |-> v]

Raise(e) == [ok |-> FALSE, error |-> e]

\* random() < p, p in millionths
RandomBelow(u, p) == u.num * 1000000 < p * u.den

\* random.choice(seq)
choice(seq, i) == seq[i]

\* A variant: a missing weight counts as 0.
Weights_DefaultZero(items, weight_key) ==
    [i \in 1..Len(items) |-> Get(items[i], weight_key, 0)]

\* weights = [item.get(weight_key, 1.0) for item in items]
Weights(items, weight_key) ==
    [i \in 1..Len(items) |-> Get(items[i], weight_key, 100)]

\* itertools.accumulate
CumWeights(weights) ==
    [i \in 1..Len(weights) |-> SumSeq(SubSeq(weights, 1, i))]

\* bisect.bisect(cum_weights, random() * total, 0, n - 1) of random.choices, from 1:
\* the first of the first n - 1 positions whose cumulative weight exceeds the
\* point, else n.  The point is u * total with total = cum_weights[n]; the
\* weights were divided by total_weight before, which cancels out of the
\* comparison u * total < cum_weights[i].
Bisect(cum_weights, u) ==
    LET n     == Len(cum_weights)
        total == cum_weights[n]
        above == {i \in 1..(n - 1) : u.num * total < cum_weights[i] * u.den}
    IN  IF above = {} THEN n ELSE CHOOSE i \in above : \A j \in above : i <= j

\* A variant: a total weight of 0 is guarded and the first entry returned.
sample_from_weighted_list_Guarded(items, weight_key, u) ==
    LET weights      == Weights(items, weight_key)
        total_weight == SumSeq(weights)
    IN  IF items = << >> THEN Raise("IndexError")
        ELSE IF total_weight = 0 THEN Return(items[1])
        ELSE IF total_weight < 0 THEN Raise("ValueError")
        ELSE Return(items[Bisect(CumWeights(weights), u)])

\* Python: sample_from_weighted_list(items, weight_key), u the random() of
\* random.choices.  The division by total_weight raises when the list is not
\* empty and the total is 0; random.choices raises on an empty list
\* (cum_weights[-1]) and on a total that is not positive.
sample_from_weighted_list(items, weight_key, u) ==
    LET weights      == Weights(items, weight_key)
        total_weight == SumSeq(weights)
    IN  IF items # << >> /\ total_weight = 0 THEN Raise("ZeroDivisionError")
        ELSE IF items = << >> THEN Raise("IndexError")
        ELSE IF total_weight < 0 THEN Raise("ValueError")
        ELSE Return(items[Bisect(CumWeights(weights), u)])

\* cancellation_probability before the cap, in millionths:
\* base_probability (0.01) * weather_factor * airline_factor
CancellationProbability(weather_condition, airline_factor) ==
    Get(weather_multiplier, weather_condition.condition, 100) * airline_factor

\* A variant: the probability is not capped.
determine_cancellation_NoCap(weather_condition, airline_factor, u) ==
    RandomBelow(u, CancellationProbability(weather_condition, airline_factor))

\* Python: determine_cancellation(weather_condition, airline_factor), u the random()
determine_cancellation(weather_condition, airline_factor, u) ==
    LET cancellation_probability ==
            Min(CancellationProbability(weather_condition, airline_factor), 500000)
    IN  RandomBelow(u, cancellation_probability)

\* mean_delay = base_mean * combined_factor, in thousandths of a minute.  The
\* product of the factors is cut to six decimals before the weekday factor is
\* applied and to three decimals at the end.
MeanDelay(airline_factor, origin_factor, destination_factor, weather_factor, time_factor, day_factor) ==
    LET root     == Sqrt(origin_factor * destination_factor)
        four     == (airline_factor * root * weather_factor * time_factor) \div 100
        combined == (four * day_factor) \div 100
    IN  (15 * combined) \div 1000

\* random.expovariate(1.0 / mean) = -log(1.0 - random()) / lambd = e * mean,
\* mean in thousandths of a minute and e in hundredths: 1.0 / mean raises when
\* mean is 0.  The result is in units of 1/100000 minute.
Expovariate(mean, e) == IF mean = 0 THEN Raise("ZeroDivisionError") ELSE Return(e * mean)

\* A variant: a cancelled flight gets the sentinel -1 instead of 0.
generate_delay_minutes_Sentinel(airline_factor, origin_factor, destination_factor, weather_factor, time_factor, day_factor, cancelled, u, e) ==
    IF cancelled THEN Return(-1)
    ELSE LET mean_delay == MeanDelay(airline_factor, origin_factor, destination_factor,
                                     weather_factor, time_factor, day_factor)
             delay == IF RandomBelow(u, 700000)
                      THEN Expovariate(mean_delay \div 2, e)
                      ELSE Expovariate(mean_delay * 2, e)
         IN  IF ~delay.ok THEN delay
             ELSE Return(Max(0, RoundHalfEven(delay.value, 100000)))

\* Python: generate_delay_minutes(...), u the random() compared with 0.7 and e
\* the draw of expovariate.
generate_delay_minutes(airline_factor, origin_factor, destination_factor, weather_factor, time_factor, day_factor, cancelled, u, e) ==
    IF cancelled THEN Return(0)
    ELSE LET mean_delay == MeanDelay(airline_factor, origin_factor, destination_factor,
                                     weather_factor, time_factor, day_factor)
             delay == IF RandomBelow(u, 700000)
                      THEN Expovariate(mean_delay \div 2, e)
                      ELSE Expovariate(mean_delay * 2, e)
         IN  IF ~delay.ok THEN delay
             ELSE Return(Max(0, RoundHalfEven(delay.value, 100000)))

\* A variant: the thresholds are compared with > instead of >=.
get_flight_status_Strict(delay_minutes, cancelled) ==
    IF cancelled THEN "cancelled"
    ELSE IF delay_minutes > 180 THEN "significantly_delayed"
    ELSE IF delay_minutes > 45 THEN "delayed"
    ELSE IF delay_minutes > 15 THEN "slightly_delayed"
    ELSE "on_time"

\* Python: get_flight_status(delay_minutes, cancelled)
get_flight_status(delay_minutes, cancelled) ==
    IF cancelled THEN "cancelled"
    ELSE IF delay_minutes >= 180 THEN "significantly_delayed"
    ELSE IF delay_minutes >= 45 THEN "delayed"
    ELSE IF delay_minutes >= 15 THEN "slightly_delayed"
    ELSE "on_time"

\* A variant: the number comes from a source that the seed does not rule and
\* that differs from one run to the next.
generate_flight_number_Unseeded(airline_code, n) == << airline_code, n + run >>

\* A variant: the number is moved on by the count of the flights of the days
\* before, to keep the numbers of different days apart.
generate_flight_number_Sequential(airline_code, n) ==
    << airline_code, n + Len(all_flights) >>

\* Python: generate_flight_number(airline_code), n the randint(100, 9999): the
\* string is the code followed by the decimal digits of n.
generate_flight_number(airline_code, n) == << airline_code, n >>

\* A variant: the destination is drawn from every airport, the origin included.
possible_destinations_Unfiltered(origin) == AIRPORTS

\* possible_destinations = [a for a in AIRPORTS if a["code"] != origin["code"]]
possible_destinations(origin) ==
    SelectSeq(AIRPORTS, LAMBDA a : a.code # origin.code)

\* origin_weather = sample_from_weighted_list(WEATHER_CONDITIONS, "probability")
OriginWeather(u) == sample_from_weighted_list(WEATHER_CONDITIONS, "probability", u)

\* A variant: the duration is added as hours.
ScheduledArrival_Hours(departure_time, base_duration_minutes) ==
    AddMinutes(departure_time, 60 * base_duration_minutes)

\* scheduled_arrival = departure_time + timedelta(minutes=base_duration_minutes)
ScheduledArrival(departure_time, base_duration_minutes) ==
    AddMinutes(departure_time, base_duration_minutes)

\* A variant: the delay is not added.
EstimatedTime_NoDelay(scheduled, delay_minutes) == scheduled

\* estimated_departure = departure_time + timedelta(minutes=delay_minutes), and
\* estimated_arrival = scheduled_arrival + timedelta(minutes=delay_minutes)
EstimatedTime(scheduled, delay_minutes) == AddMinutes(scheduled, delay_minutes)

\* A variant: the estimated time is written for a cancelled flight too.
IsoOrNone_Always(estimated, cancelled) == IsoFormat(estimated)

\* estimated.isoformat() if not cancelled else None
IsoOrNone(estimated, cancelled) == IF ~cancelled THEN IsoFormat(estimated) ELSE None

\* One iteration of the loop of generate_flight_data, from the values d drawn
\* in it (d.branch and d.exp are read only when the flight is not cancelled):
\* the flight record appended, or the exception raised.
MakeFlight(date, d) ==
    LET airline        == choice(AIRLINES, d.airline)
        origin         == choice(AIRPORTS, d.origin)
        destination    == choice(possible_destinations(origin), d.destination)
        departure_hour == d.hour
        departure_minute == choice(<< 0, 15, 30, 45 >>, d.minute)
        departure_time == Replace(date, departure_hour, departure_minute)
        base_duration_minutes == d.duration
        scheduled_arrival == ScheduledArrival(departure_time, base_duration_minutes)
        weather        == OriginWeather(d.weather)
    IN  IF ~weather.ok THEN weather
        ELSE
        LET origin_weather == weather.value
            cancelled   == determine_cancellation(origin_weather, airline.delay_factor, d.cancel)
            time_factor == Get(TIME_FACTORS, departure_hour, 100)
            day_factor  == Get(DAY_FACTORS, Weekday(departure_time), 100)
            delay       == generate_delay_minutes(airline.delay_factor,
                               origin.congestion_factor, destination.congestion_factor,
                               origin_weather.delay_factor, time_factor, day_factor,
                               cancelled, d.branch, d.exp)
        IN  IF ~delay.ok THEN delay
            ELSE
            LET delay_minutes       == delay.value
                estimated_departure == EstimatedTime(departure_time, delay_minutes)
                estimated_arrival   == EstimatedTime(scheduled_arrival, delay_minutes)
                status              == get_flight_status(delay_minutes, cancelled)
                flight_number       == generate_flight_number(airline.code, d.number)
            IN  Return(
                 [flight_number       |-> flight_number,
                  airline_code        |-> airline.code,
                  airline_name        |-> airline.name,
                  origin_code         |-> origin.code,
                  origin_name         |-> origin.name,
                  destination_code    |-> destination.code,
                  destination_name    |-> destination.name,
                  scheduled_departure |-> IsoFormat(departure_time),
                  estimated_departure |-> IsoOrNone(estimated_departure, cancelled),
                  actual_departure    |-> None,
                  scheduled_arrival   |-> IsoFormat(scheduled_arrival),
                  estimated_arrival   |-> IsoOrNone(estimated_arrival, cancelled),
                  actual_arrival      |-> None,
                  status              |-> status,
                  delay_minutes       |-> delay_minutes,
                  cancelled           |-> cancelled,
                  weather_condition   |-> origin_weather.condition])

\* Whether the iteration that draws d cancels the flight.
Cancels(d) ==
    determine_cancellation(OriginWeather(d.weather).value,
                           choice(AIRLINES, d.airline).delay_factor, d.cancel)

\* The values one iteration takes from the generator, in the order of its calls:
\* random.choice x3, randint, choice, randint, random.choices, random(), then
\* random() and expovariate only for a flight that is not cancelled, then the
\* randint of generate_flight_number.
Drawn(d) ==
    << d.airline, d.origin, d.destination, d.hour, d.minute, d.duration,
       d.weather, d.cancel >>
    \o (IF Cancels(d) THEN << >> ELSE << d.branch, d.exp >>)
    \o << d.number >>

(***************************************************************************)
(* Bounds and inputs                                                       *)
(***************************************************************************)
MaxDays == 3

MaxFlightsPerDay == 3

\* generate_dataset is called with days * flights_per_day <= MaxRecords.
MaxRecords == 4

\* A random() value: num / den.
Frac(n, d) == [num |-> n, den |-> d]

\* start_date of main: start dates parsed from YYYY-MM-DD, midnight each; the
\* days that follow cross the end of February of a leap year and a new year.
StartDates == { DateTime(2024, 2, 28), DateTime(2023, 12, 30) }

\* The values the generator may yield to each call of an iteration, for a
\* dataset: both outcomes of the cancellation, two origins, two delays.
DatasetDraws ==
    { [airline     |-> {10},
       origin      |-> {1, 7},
       destination |-> {1},
       hour        |-> {23},
       minute      |-> {4},
       duration    |-> {720},
       weather     |-> {Frac(96, 100)},
       cancel      |-> {Frac(0, 1000), Frac(999, 1000)},
       branch      |-> {Frac(7, 10)},
       exp         |-> {0, 250},
       number      |-> {100}] }

(***************************************************************************)
(* The shared generator                                                    *)
(***************************************************************************)
\* The k-th value the generator yields from here: the one the stream holds, or
\* a fresh one of the call's range.
Draw(k, range) ==
    IF rng.pos + k <= Len(rng.stream) THEN { rng.stream[rng.pos + k] } ELSE range

\* The generator after the values drawn were taken from it.
Consume(drawn) ==
    [stream |-> SubSeq(rng.stream, 1, rng.pos) \o drawn
                \o SubSeq(rng.stream, rng.pos + Len(drawn) + 1, Len(rng.stream)),
     pos    |-> rng.pos + Len(drawn)]

(***************************************************************************)
(* generate_flight_data                                                    *)
(***************************************************************************)
\* The values of range that random.randint(a, b) can return.
randint(range, a, b) == { x \in range : a <= x /\ x <= b }

\* The indexes of range that random.choice(seq) can choose.
choices(range, seq) == { i \in range : 1 <= i /\ i <= Len(seq) }

\* One iteration of `for _ in range(num_flights)`, D the ranges of the draws.
\* k is the number of values generate_delay_minutes draws, d the values drawn
\* and made the record appended (or the exception).
Iteration(D) ==
    \E a \in Draw(1, choices(D.airline, AIRLINES)),
       o \in Draw(2, choices(D.origin, AIRPORTS)) :
    \E t \in Draw(3, choices(D.destination, possible_destinations(choice(AIRPORTS, o)))),
       h \in Draw(4, randint(D.hour, 0, 23)),
       m \in Draw(5, choices(D.minute, << 0, 15, 30, 45 >>)),
       b \in Draw(6, randint(D.duration, 60, 720)),
       w \in Draw(7, D.weather),
       c \in Draw(8, D.cancel) :
       \E k \in { IF Cancels([airline |-> a, weather |-> w, cancel |-> c]) THEN 0 ELSE 2 } :
       \E u \in (IF k = 0 THEN {None} ELSE Draw(9, D.branch)),
          e \in (IF k = 0 THEN {None} ELSE Draw(10, D.exp)),
          n \in Draw(9 + k, randint(D.number, 100, 9999)) :
       \E d \in { [airline |-> a, origin |-> o, destination |-> t, hour |-> h,
                   minute |-> m, duration |-> b, weather |-> w, cancel |-> c,
                   branch |-> u, exp |-> e, number |-> n] } :
       \E made \in { MakeFlight(flight_date, d) } :
          /\ rng' = Consume(Drawn(d))
          /\ IF made.ok
             THEN /\ flights' = Append(flights, made.value)
                  /\ hist' = Append(hist, [date |-> flight_date, flight |-> made.value,
                                           pos |-> rng.pos])
                  /\ UNCHANGED << pc, ret >>
             ELSE /\ pc' = "raised"
                  /\ ret' = made
                  /\ UNCHANGED << flights, hist >>

\* A variant of the loop: the destination is drawn among all the airports and,
\* when it is the origin, the iteration starts again with new draws.
GenerateFlight_Retry(Draws) ==
    /\ pc = "flights"
    /\ Len(flights) < num_flights
    /\ \E D \in Draws :
          \/ Iteration(D)
          \/ \E a \in Draw(1, choices(D.airline, AIRLINES)),
                o \in Draw(2, choices(D.origin, AIRPORTS)),
                t \in Draw(3, choices(D.destination, AIRPORTS)) :
                /\ t = o
                /\ rng' = Consume(<< a, o, t >>)
                /\ UNCHANGED << flights, hist, pc, ret >>
    /\ UNCHANGED << files, stdout, call, start_date, days, flights_per_day, day, all_flights,
                    flight_date, num_flights, run, ret1 >>

GenerateFlight(Draws) ==
    /\ pc = "flights"
    /\ Len(flights) < num_flights
    /\ \E D \in Draws : Iteration(D)
    /\ UNCHANGED << files, stdout, call, start_date, days, flights_per_day, day, all_flights,
                    flight_date, num_flights, run, ret1 >>

(***************************************************************************)
(* generate_dataset                                                        *)
(***************************************************************************)
\* for day in range(days): current_date = start_date + timedelta(days=day), and
\* the call generate_flight_data(current_date, flights_per_day) begins.
DatasetDay ==
    /\ pc = "dataset"
    /\ day < days
    /\ flight_date' = AddDays(start_date, day)
    /\ num_flights' = flights_per_day
    /\ flights' = << >>
    /\ pc' = "flights"
    /\ UNCHANGED << files, stdout, call, start_date, days, flights_per_day, day, all_flights,
                    ret, rng, hist, run, ret1 >>

\* A variant: the day's flights are put in front of the list.
Extend_Prepend(list, daily_flights) == daily_flights \o list

\* all_flights.extend(daily_flights)
Extend(list, daily_flights) == list \o daily_flights

\* generate_flight_data returns its list to generate_dataset, which extends
\* all_flights with it and goes on to the next day.
ExtendDay ==
    /\ pc = "flights"
    /\ call.fn \in {"generate_dataset", "main"}
    /\ Len(flights) >= num_flights
    /\ all_flights' = Extend(all_flights, flights)
    /\ day' = day + 1
    /\ pc' = "dataset"
    /\ UNCHANGED << files, stdout, call, start_date, days, flights_per_day, flight_date,
                    num_flights, flights, ret, rng, hist, run, ret1 >>

\* return all_flights: to the caller, or to main, whose flights is then the
\* list all_flights itself.
DatasetReturn ==
    /\ pc = "dataset"
    /\ day >= days
    /\ ret' = IF call.fn = "main" THEN ret ELSE Return(all_flights)
    /\ pc' = IF call.fn = "main" THEN "save_json" ELSE "done"
    /\ UNCHANGED << files, stdout, call, start_date, days, flights_per_day, day, all_flights,
                    flight_date, num_flights, flights, rng, hist, run, ret1 >>

\* The caller seeds the generator as before the first run and calls
\* generate_dataset again with the same arguments.
Reseed ==
    /\ pc = "done"
    /\ call.fn = "generate_dataset"
    /\ run = 1
    /\ ret1' = ret
    /\ run' = 2
    /\ rng' = [rng EXCEPT !.pos = 0]
    /\ day' = 0
    /\ all_flights' = << >>
    /\ flights' = << >>
    /\ hist' = << >>
    /\ ret' = None
    /\ pc' = "dataset"
    /\ UNCHANGED << files, stdout, call, start_date, days, flights_per_day, flight_date, num_flights >>

Init ==
    /\ call = [fn |-> "generate_dataset"]
    /\ pc = "dataset"
    /\ start_date \in StartDates
    /\ days \in -1..MaxDays
    /\ flights_per_day \in -1..MaxFlightsPerDay
    /\ days * flights_per_day <= MaxRecords
    /\ day = 0
    /\ all_flights = << >>
    /\ flight_date = start_date
    /\ num_flights = 0
    /\ flights = << >>
    /\ ret = None
    /\ rng = [stream |-> << >>, pos |-> 0]
    /\ hist = << >>
    /\ run = 1
    /\ ret1 = None
    /\ files = NoFiles
    /\ stdout = << >>

Next ==
    \/ DatasetDay
    \/ GenerateFlight(DatasetDraws)
    \/ ExtendDay
    \/ DatasetReturn
    \/ Reseed

Spec == Init /\ [][Next]_vars

(***************************************************************************)
(* generate_dataset run once, to its end: the interpreter goes on as long   *)
(* as the call has a step to take.                                          *)
(***************************************************************************)
\* The values the generator may yield to each call of an iteration of the run:
\* both outcomes of the cancellation, one value for every other call.
RunDraws == { [D EXCEPT !.origin = {1}, !.exp = {250}] : D \in DatasetDraws }

NextRun ==
    \/ DatasetDay
    \/ GenerateFlight(RunDraws)
    \/ ExtendDay
    \/ DatasetReturn

SpecRun == Init /\ [][NextRun]_vars /\ WF_vars(NextRun)

(***************************************************************************)
(* generate_dataset called a second time for the days after the first      *)
(***************************************************************************)
\* The caller sets the shared generator and calls
\* generate_dataset(start_date + 1 day, days - 1, flights_per_day): the same
\* dates without the first.  The generator is either seeded as it was before
\* the first run (random.seed), or put in the state it was in when the first
\* run began its second day (random.setstate).
SkipFirstDay(generator, pos) ==
    /\ pc = "done"
    /\ run = 1
    /\ days >= 1
    /\ flights_per_day >= 0
    /\ call' = [fn |-> "generate_dataset", generator |-> generator]
    /\ start_date' = AddDays(start_date, 1)
    /\ days' = days - 1
    /\ ret1' = ret
    /\ run' = 2
    /\ rng' = [rng EXCEPT !.pos = pos]
    /\ day' = 0
    /\ all_flights' = << >>
    /\ flights' = << >>
    /\ hist' = << >>
    /\ ret' = None
    /\ pc' = "dataset"
    /\ UNCHANGED << files, stdout, flights_per_day, flight_date, num_flights >>

SeedAndSkip == SkipFirstDay("seeded", 0)

RestoreAndSkip ==
    SkipFirstDay("restored",
                 IF Len(hist) > flights_per_day THEN hist[flights_per_day + 1].pos
                 ELSE rng.pos)

NextSkip ==
    \/ DatasetDay
    \/ GenerateFlight(DatasetDraws)
    \/ ExtendDay
    \/ DatasetReturn
    \/ SeedAndSkip
    \/ RestoreAndSkip

SpecSkip == Init /\ [][NextSkip]_vars

(***************************************************************************)
(* The functions called one at a time                                      *)
(***************************************************************************)
\* The random() values tried: k / GridDen.
GridDen == 60

RandomGrid == { Frac(k, GridDen) : k \in 0..(GridDen - 1) }

\* get_flight_status is called with delay_minutes in -1..MaxDelayArg.
MaxDelayArg == 200

\* sample_from_weighted_list is called with lists of at most MaxItems entries.
MaxItems == 3

\* The entries a list may hold at position i: a weight of 0, 1.0 or 2.0, or no
\* weight key at all.
Entries(i) ==
    { [label |-> i] } \cup { [label |-> i, weight |-> w] : w \in {0, 100, 200} }

RECURSIVE ItemLists(_)
ItemLists(n) ==
    IF n = 0 THEN { << >> }
    ELSE { Append(l, x) : l \in ItemLists(n - 1), x \in Entries(n) }

\* flight_date of a direct call: two midnights (the last day of a year, the day
\* before a leap day) and a datetime that carries a time of day.
FlightDates ==
    { DateTime(2023, 12, 31), DateTime(2024, 2, 28),
      [ord |-> Ymd2Ord(2025, 6, 13), hour |-> 13, minute |-> 7, second |-> 5,
       microsecond |-> 250000] }

\* The smallest and the largest factor of each reference table.
FactorEnds ==
    [airline |-> {60, 110}, airport |-> {80, 140}, weather |-> {70, 300},
     time |-> {60, 150}, day |-> {90, 130}]

\* The draws of -log(1.0 - random()), in hundredths.
ExpDraws == {0, 1, 50, 100, 300, 1000, 3000}

\* The random() values compared with 0.7.
BranchDraws == {Frac(0, 1000), Frac(699, 1000), Frac(7, 10), Frac(999, 1000)}

\* start_date of a direct call of generate_dataset: a datetime that carries a
\* time of day, two days before the end of a year.
LateStartDate ==
    [ord |-> Ymd2Ord(2024, 12, 30), hour |-> 18, minute |-> 30, second |-> 15,
     microsecond |-> 500000]

UnitCalls ==
    { [fn |-> "generate_flight_data", flight_date |-> dt, num_flights |-> n] :
        dt \in FlightDates, n \in {-1, 0, 1} }
    \cup
    { [fn |-> "generate_dataset", start_date |-> LateStartDate, days |-> c[1],
       flights_per_day |-> c[2]] : c \in { << 3, 1 >>, << 2, 2 >> } }
    \cup
    { [fn |-> "get_flight_status", delay_minutes |-> m, cancelled |-> c] :
        m \in -1..MaxDelayArg, c \in BOOLEAN }
    \cup
    { [fn |-> "determine_cancellation", weather_condition |-> [condition |-> w],
       airline_factor |-> f] :
        w \in DOMAIN weather_multiplier \cup {"Hail"},
        f \in {AIRLINES[i].delay_factor : i \in 1..Len(AIRLINES)} \cup {100, 1000} }
    \cup
    { [fn |-> "sample_from_weighted_list", items |-> l, weight_key |-> "weight"] :
        l \in UNION { ItemLists(n) : n \in 0..MaxItems } }
    \cup
    { [fn |-> "generate_delay_minutes", airline_factor |-> a, origin_factor |-> o,
       destination_factor |-> t, weather_factor |-> w, time_factor |-> h,
       day_factor |-> y, cancelled |-> c] :
        a \in FactorEnds.airline, o \in FactorEnds.airport, t \in FactorEnds.airport,
        w \in FactorEnds.weather, h \in FactorEnds.time, y \in FactorEnds.day,
        c \in BOOLEAN }

\* The ranges of the draws of one iteration, for a single flight: every route
\* of every airline; every departure slot with the shortest and the longest
\* durations, cancelled or not; every weather with both ends of the airline,
\* airport and hour factors, around the cancellation thresholds, both branches
\* of the delay and short to long delays.
FlightDraws ==
    { [airline     |-> 1..10,
       origin      |-> 1..10,
       destination |-> 1..10,
       hour        |-> {8},
       minute      |-> {1},
       duration    |-> {60},
       weather     |-> {Frac(0, 100)},
       cancel      |-> {Frac(999, 1000)},
       branch      |-> {Frac(0, 10)},
       exp         |-> {100},
       number      |-> {100}],
      [airline     |-> {1},
       origin      |-> {1},
       destination |-> {1},
       hour        |-> 0..23,
       minute      |-> 1..4,
       duration    |-> {59, 60, 61, 719, 720, 721},
       weather     |-> {Frac(0, 100)},
       cancel      |-> {Frac(0, 1000), Frac(999, 1000)},
       branch      |-> {Frac(7, 10)},
       exp         |-> {0, 150, 3000},
       number      |-> {99, 100, 9999, 10000}],
      [airline     |-> {9, 10},
       origin      |-> {4, 7},
       destination |-> {1},
       hour        |-> {1, 17},
       minute      |-> {1},
       duration    |-> {390},
       weather     |-> { Frac(k, 100) :
                           k \in {0, 59, 60, 74, 75, 84, 85, 89, 90, 94, 95, 97, 98, 99} },
       cancel      |-> {Frac(0, 1000), Frac(164, 1000), Frac(165, 1000), Frac(999, 1000)},
       branch      |-> BranchDraws,
       exp         |-> ExpDraws,
       number      |-> {100}] }

\* The ranges of the draws of one iteration for the dataset of a direct call:
\* the first and the last departure hour, cancelled or not.
LateDatasetDraws ==
    { [airline     |-> {10},
       origin      |-> {1},
       destination |-> {1},
       hour        |-> {0, 23},
       minute      |-> {4},
       duration    |-> {720},
       weather     |-> {Frac(96, 100)},
       cancel      |-> {Frac(0, 1000), Frac(999, 1000)},
       branch      |-> {Frac(7, 10)},
       exp         |-> {250},
       number      |-> {100}] }

\* The call generate_dataset(start_date, days, flights_per_day) begins:
\* all_flights = []
CallDataset ==
    /\ pc = "call"
    /\ call.fn = "generate_dataset"
    /\ start_date' = call.start_date
    /\ days' = call.days
    /\ flights_per_day' = call.flights_per_day
    /\ day' = 0
    /\ all_flights' = << >>
    /\ pc' = "dataset"
    /\ UNCHANGED << files, stdout, call, flight_date, num_flights, flights, ret, rng,
                    hist, run, ret1 >>

\* The call generate_flight_data(flight_date, num_flights) begins: flights = []
CallFlightData ==
    /\ pc = "call"
    /\ call.fn = "generate_flight_data"
    /\ flight_date' = call.flight_date
    /\ num_flights' = call.num_flights
    /\ flights' = << >>
    /\ pc' = "flights"
    /\ UNCHANGED << files, stdout, call, start_date, days, flights_per_day, day, all_flights,
                    ret, rng, hist, run, ret1 >>

\* return flights
ReturnFlights ==
    /\ pc = "flights"
    /\ call.fn = "generate_flight_data"
    /\ Len(flights) >= num_flights
    /\ ret' = Return(flights)
    /\ pc' = "done"
    /\ UNCHANGED << files, stdout, call, start_date, days, flights_per_day, day, all_flights,
                    flight_date, num_flights, flights, rng, hist, run, ret1 >>

CallGetFlightStatus ==
    /\ pc = "call"
    /\ call.fn = "get_flight_status"
    /\ ret' = Return(get_flight_status(call.delay_minutes, call.cancelled))
    /\ pc' = "done"
    /\ UNCHANGED << files, stdout, call, start_date, days, flights_per_day, day, all_flights,
                    flight_date, num_flights, flights, rng, hist, run, ret1 >>

CallDetermineCancellation ==
    /\ pc = "call"
    /\ call.fn = "determine_cancellation"
    /\ \E u \in Draw(1, RandomGrid) :
          /\ ret' = Return(determine_cancellation(call.weather_condition,
                                                  call.airline_factor, u))
          /\ rng' = Consume(<< u >>)
    /\ pc' = "done"
    /\ UNCHANGED << files, stdout, call, start_date, days, flights_per_day, day, all_flights,
                    flight_date, num_flights, flights, hist, run, ret1 >>

\* The random() of random.choices is drawn only when nothing was raised before.
CallSample ==
    /\ pc = "call"
    /\ call.fn = "sample_from_weighted_list"
    /\ \E u \in Draw(1, RandomGrid) :
          LET r == sample_from_weighted_list(call.items, call.weight_key, u)
          IN  /\ ret' = r
              /\ rng' = IF r.ok THEN Consume(<< u >>) ELSE rng
    /\ pc' = "done"
    /\ UNCHANGED << files, stdout, call, start_date, days, flights_per_day, day, all_flights,
                    flight_date, num_flights, flights, hist, run, ret1 >>

\* Both draws are made only for a flight that is not cancelled.
CallGenerateDelayMinutes ==
    /\ pc = "call"
    /\ call.fn = "generate_delay_minutes"
    /\ \E u \in (IF call.cancelled THEN {None} ELSE Draw(1, BranchDraws)),
          e \in (IF call.cancelled THEN {None} ELSE Draw(2, ExpDraws)) :
          /\ ret' = generate_delay_minutes(call.airline_factor, call.origin_factor,
                        call.destination_factor, call.weather_factor,
                        call.time_factor, call.day_factor, call.cancelled, u, e)
          /\ rng' = IF call.cancelled THEN rng ELSE Consume(<< u, e >>)
    /\ pc' = "done"
    /\ UNCHANGED << files, stdout, call, start_date, days, flights_per_day, day, all_flights,
                    flight_date, num_flights, flights, hist, run, ret1 >>

InitUnit ==
    /\ call \in UnitCalls
    /\ pc = "call"
    /\ start_date = None
    /\ days = 0
    /\ flights_per_day = 0
    /\ day = 0
    /\ all_flights = << >>
    /\ flight_date = None
    /\ num_flights = 0
    /\ flights = << >>
    /\ ret = None
    /\ rng = [stream |-> << >>, pos |-> 0]
    /\ hist = << >>
    /\ run = 1
    /\ ret1 = None
    /\ files = NoFiles
    /\ stdout = << >>

NextUnit ==
    \/ CallFlightData
    \/ call.fn = "generate_flight_data" /\ GenerateFlight(FlightDraws)
    \/ ReturnFlights
    \/ CallDataset
    \/ DatasetDay
    \/ call.fn = "generate_dataset" /\ GenerateFlight(LateDatasetDraws)
    \/ ExtendDay
    \/ DatasetReturn
    \/ CallGetFlightStatus
    \/ CallDetermineCancellation
    \/ CallSample
    \/ CallGenerateDelayMinutes

SpecUnit == InitUnit /\ [][NextUnit]_vars

(***************************************************************************)
(* main.  A string is the tuple of its characters.                         *)
(***************************************************************************)
Digit ==
    ("0" :> 0) @@ ("1" :> 1) @@ ("2" :> 2) @@ ("3" :> 3) @@ ("4" :> 4) @@
    ("5" :> 5) @@ ("6" :> 6) @@ ("7" :> 7) @@ ("8" :> 8) @@ ("9" :> 9)

\* Whether every character of a string is a decimal digit.
IsDigits(str) == \A i \in 1..Len(str) : str[i] \in DOMAIN Digit

\* int(str) of a string of digits
RECURSIVE IntOf(_)
IntOf(str) ==
    IF str = << >> THEN 0
    ELSE 10 * IntOf(SubSeq(str, 1, Len(str) - 1)) + Digit[str[Len(str)]]

\* str.split("-")
RECURSIVE Split(_)
Split(str) ==
    IF \A i \in 1..Len(str) : str[i] # "-" THEN << str >>
    ELSE LET i == CHOOSE i \in 1..Len(str) :
                      str[i] = "-" /\ \A j \in 1..(i - 1) : str[j] # "-"
         IN  << SubSeq(str, 1, i - 1) >> \o Split(SubSeq(str, i + 1, Len(str)))

\* The directives of the format as strptime matches them: %Y is four digits,
\* %m is 1[0-2]|0[1-9]|[1-9], %d is 3[01]|[12]\d|0[1-9]|[1-9]| [1-9].
MatchesY(str) == Len(str) = 4 /\ IsDigits(str)

MatchesM(str) == Len(str) \in {1, 2} /\ IsDigits(str) /\ IntOf(str) \in 1..12

MatchesD(str) ==
    \/ Len(str) \in {1, 2} /\ IsDigits(str) /\ IntOf(str) \in 1..31
    \/ Len(str) = 2 /\ str[1] = " " /\ str[2] \in DOMAIN Digit /\ Digit[str[2]] # 0

\* A variant: a day the month does not have is cut to the last day of the month.
strptime_Lenient(date_string) ==
    LET parts == Split(date_string)
    IN  IF Len(parts) # 3 THEN Raise("ValueError")
        ELSE IF ~(MatchesY(parts[1]) /\ MatchesM(parts[2]) /\ MatchesD(parts[3]))
        THEN Raise("ValueError")
        ELSE LET year  == IntOf(parts[1])
                 month == IntOf(parts[2])
                 dom   == IntOf(SelectSeq(parts[3], LAMBDA c : c # " "))
             IN  IF year < 1 THEN Raise("ValueError")
                 ELSE Return(DateTime(year, month, Min(dom, DaysInMonth(year, month))))

\* datetime.datetime.strptime(date_string, "%Y-%m-%d"): the whole string has to
\* match the three directives joined by "-", and the numbers have to name a
\* date (year 1 at least, a day the month has); ValueError otherwise.
strptime(date_string) ==
    LET parts == Split(date_string)
    IN  IF Len(parts) # 3 THEN Raise("ValueError")
        ELSE IF ~(MatchesY(parts[1]) /\ MatchesM(parts[2]) /\ MatchesD(parts[3]))
        THEN Raise("ValueError")
        ELSE LET year  == IntOf(parts[1])
                 month == IntOf(parts[2])
                 dom   == IntOf(SelectSeq(parts[3], LAMBDA c : c # " "))
             IN  IF year < 1 \/ dom > DaysInMonth(year, month) THEN Raise("ValueError")
                 ELSE Return(DateTime(year, month, dom))

\* --start-date: strings that name a date ...
GoodDateStrings ==
    {
      << "2", "0", "2", "4", "-", "0", "2", "-", "2", "8" >>,
      << "2", "0", "2", "3", "-", "1", "2", "-", "3", "0" >>,
      << "2", "0", "2", "4", "-", "2", "-", "2", "9" >> }

\* ... and strings that do not: empty, other separators or orders, a day or a
\* month that does not exist, text left over, parts missing.
BadDateStrings ==
    {
      << >>,
      << "2", "0", "2", "4", "/", "0", "2", "/", "2", "8" >>,
      << "2", "8", "-", "0", "2", "-", "2", "0", "2", "4" >>,
      << "2", "0", "2", "3", "-", "0", "2", "-", "2", "9" >>,
      << "2", "0", "2", "4", "-", "1", "3", "-", "0", "1" >>,
      << "2", "0", "2", "4", "-", "0", "0", "-", "1", "0" >>,
      << "2", "0", "2", "4", "-", "0", "2", "-", "2", "8", " " >>,
      << "2", "4", "-", "0", "2", "-", "2", "8" >>,
      << "2", "0", "2", "4", "-", "0", "2" >>,
      << "0", "0", "0", "0", "-", "0", "1", "-", "0", "1" >>,
      << "2", "0", "2", "4", "-", "0", "4", "-", "3", "1" >>,
      << "2", "0", "2", "4", "-", "0", "2", "-", "2", "x" >>,
      << "2", "0", "2", "4", "-", "0", "2", "-", "2", "8", "-", "0", "1" >> }

\* The keys of a flight record, in the order the dictionary is built.
FIELDS ==
    << "flight_number", "airline_code", "airline_name", "origin_code", "origin_name",
       "destination_code", "destination_name", "scheduled_departure",
       "estimated_departure", "actual_departure", "scheduled_arrival",
       "estimated_arrival", "actual_arrival", "status", "delay_minutes", "cancelled",
       "weather_condition" >>

\* The keys whose value is None in some record.
NullableFields ==
    {"estimated_departure", "actual_departure", "estimated_arrival", "actual_arrival"}

\* A variant: only the keys whose value is not None are taken.
Keys_NotNone(flight) ==
    SelectSeq(FIELDS, LAMBDA k : k \in DOMAIN flight
                                   /\ ~(k \in NullableFields /\ flight[k] = None))

\* dict.keys(): the keys a record has, in insertion order.
Keys(flight) == SelectSeq(FIELDS, LAMBDA k : k \in DOMAIN flight)

SeqToSet(seq) == { seq[i] : i \in 1..Len(seq) }

\* What a call does to the list it was given and to the world: the list after
\* the call, the file content written (None: no file), what it printed, and
\* whether it returned or raised.
Effect(list, file, printed, result) ==
    [flights |-> list, file |-> file, printed |-> printed, result |-> result]

\* json.dump(flights, f, indent=2): an array of objects, each the key/value
\* pairs of a record in its order.
JsonObject(flight) ==
    LET keys == Keys(flight) IN [i \in 1..Len(keys) |-> << keys[i], flight[keys[i]] >>]

\* A variant: the records are popped off the list as they are written.
save_json_Draining(list) ==
    Effect(<< >>, [array |-> [i \in 1..Len(list) |-> JsonObject(list[i])]],
           << [text |-> "Saved", flights |-> 0, file |-> "json"] >>, Return(None))

\* Python: save_json(flights, filename)
save_json(list) ==
    Effect(list, [array |-> [i \in 1..Len(list) |-> JsonObject(list[i])]],
           << [text |-> "Saved", flights |-> Len(list), file |-> "json"] >>, Return(None))

\* csv.DictWriter: a key missing from a row is written as restval "", None is
\* written as "", any other value as its str().
CsvCell(flight, key) ==
    IF key \notin DOMAIN flight THEN ""
    ELSE IF key \in NullableFields /\ flight[key] = None THEN ""
    ELSE flight[key]

CsvRow(flight, fieldnames) ==
    [i \in 1..Len(fieldnames) |-> CsvCell(flight, fieldnames[i])]

\* Python: save_csv(flights, filename).  Nothing is written for an empty list.
\* writerows raises ValueError at the first row that has a key the header lacks
\* (extrasaction is "raise"); the header and the rows before it are written.
save_csv(list) ==
    IF list = << >> THEN Effect(list, None, << [text |-> "No flights to save"] >>, Return(None))
    ELSE LET fieldnames == Keys(list[1])
             extra == { i \in 1..Len(list) : ~(DOMAIN list[i] \subseteq SeqToSet(fieldnames)) }
             n     == IF extra = {} THEN Len(list)
                      ELSE (CHOOSE i \in extra : \A j \in extra : i <= j) - 1
             file  == [header |-> fieldnames,
                       rows   |-> [i \in 1..n |-> CsvRow(list[i], fieldnames)]]
             said == << [text |-> "Saved", flights |-> Len(list), file |-> "csv"] >>
         IN  IF extra = {} THEN Effect(list, file, said, Return(None))
             ELSE Effect(list, file, << >>, Raise("ValueError"))

\* sorted(seq) of a list of numbers
RECURSIVE Sorted(_)
Sorted(seq) ==
    IF seq = << >> THEN << >>
    ELSE LET i == CHOOSE i \in 1..Len(seq) : \A j \in 1..Len(seq) : seq[i] <= seq[j]
         IN  << seq[i] >> \o Sorted(SubSeq(seq, 1, i - 1) \o SubSeq(seq, i + 1, Len(seq)))

\* n / d of Python: the quotient (kept exact, as a fraction), or ZeroDivisionError.
Quot(n, d) == IF d = 0 THEN Raise("ZeroDivisionError") ELSE Return(Frac(n, d))

\* The delays of the flights that are not cancelled and whose field key has
\* the value v, in list order.
DelaysWhere(list, key, v) ==
    LET kept == SelectSeq(list, LAMBDA f : ~f.cancelled /\ f[key] = v)
    IN  [i \in 1..Len(kept) |-> kept[i].delay_minutes]

\* weather_delays and airline_delays: value of the key -> the delays.
DelaysBy(list, key) ==
    [v \in { list[i][key] : i \in { j \in 1..Len(list) : ~list[j].cancelled } }
        |-> DelaysWhere(list, key, v)]

\* "<label>: avg delay <avg> minutes, <n> flights", for each key that has delays.
Averages(by) ==
    [v \in { w \in DOMAIN by : by[w] # << >> } |->
        [avg_delay |-> Quot(SumSeq(by[v]), Len(by[v])), flights |-> Len(by[v])]]

\* A variant: each bucket takes its upper end too.
DelayBuckets_Inclusive(delays) ==
    LET count(lo, hi) == Cardinality({ i \in 1..Len(delays) : lo <= delays[i] /\ delays[i] <= hi })
    IN  [b \in {"0-15 min", "15-30 min", "30-60 min", "60-120 min", "120-180 min", "180+ min"} |->
           CASE b = "0-15 min"    -> count(0, 15)
             [] b = "15-30 min"   -> count(15, 30)
             [] b = "30-60 min"   -> count(30, 60)
             [] b = "60-120 min"  -> count(60, 120)
             [] b = "120-180 min" -> count(120, 180)
             [] b = "180+ min"    -> Cardinality({ i \in 1..Len(delays) : delays[i] >= 180 })]

\* delay_buckets
DelayBuckets(delays) ==
    LET count(lo, hi) == Cardinality({ i \in 1..Len(delays) : lo <= delays[i] /\ delays[i] < hi })
    IN  [b \in {"0-15 min", "15-30 min", "30-60 min", "60-120 min", "120-180 min", "180+ min"} |->
           CASE b = "0-15 min"    -> count(0, 15)
             [] b = "15-30 min"   -> count(15, 30)
             [] b = "30-60 min"   -> count(30, 60)
             [] b = "60-120 min"  -> count(60, 120)
             [] b = "120-180 min" -> count(120, 180)
             [] b = "180+ min"    -> Cardinality({ i \in 1..Len(delays) : delays[i] >= 180 })]

\* A variant: the statistics of the delays are computed whatever the list holds.
Truthy_Always(list) == TRUE

\* `if delays:` is true of a list that is not empty.
Truthy(list) == list # << >>

\* max(seq) of a list of numbers: ValueError when the list is empty.
MaxOf(seq) == IF seq = << >> THEN Raise("ValueError") ELSE Return(Sorted(seq)[Len(seq)])

\* seq[i] of Python, i >= 0 counted from 0: the element, or IndexError.
Index(seq, i) == IF i < Len(seq) THEN Return(seq[i + 1]) ELSE Raise("IndexError")

\* Python: analyze_dataset(flights).  The statistics printed, the numbers
\* before they are formatted: each percentage and average is the quotient the
\* code computes (count * 100 / total).  The list is only read.  The call ends
\* with the exception of the first quotient or index that fails: the average
\* of the delays is computed before their median.
analyze_dataset(list) ==
    LET total_flights == Len(list)
        status_counts ==
            [st \in { list[i].status : i \in 1..Len(list) } |->
                Cardinality({ i \in 1..Len(list) : list[i].status = st })]
        kept   == SelectSeq(list, LAMBDA f : ~f.cancelled)
        delays == [i \in 1..Len(kept) |-> kept[i].delay_minutes]
        status == [st \in DOMAIN status_counts |->
                      [count |-> status_counts[st],
                       percentage |-> Quot(status_counts[st] * 100, total_flights)]]
        buckets == DelayBuckets(delays)
        median == Index(Sorted(delays), Len(delays) \div 2)
        max    == MaxOf(delays)
        delay_stats ==
            IF ~Truthy(delays) THEN None
            ELSE [average |-> Quot(SumSeq(delays), Len(delays)),
                  median  |-> IF median.ok THEN median.value ELSE None,
                  max     |-> IF max.ok THEN max.value ELSE None,
                  buckets |-> [b \in DOMAIN buckets |->
                                  [count |-> buckets[b],
                                   percentage |-> Quot(buckets[b] * 100, Len(delays))]]]
        weather == Averages(DelaysBy(list, "weather_condition"))
        airline == Averages(DelaysBy(list, "airline_code"))
        quotients ==
            { status[st].percentage : st \in DOMAIN status }
            \cup (IF ~Truthy(delays) THEN {}
                  ELSE { delay_stats.average }
                       \cup { delay_stats.buckets[b].percentage : b \in DOMAIN buckets })
            \cup { weather[w].avg_delay : w \in DOMAIN weather }
            \cup { airline[a].avg_delay : a \in DOMAIN airline }
        printed == << [text |-> "Flight Dataset Statistics",
                       total_flights |-> total_flights, status |-> status,
                       delays |-> delay_stats, weather |-> weather, airline |-> airline] >>
    IN  IF \E q \in quotients : ~q.ok THEN Effect(list, None, << >>, Raise("ZeroDivisionError"))
        ELSE IF Truthy(delays) /\ ~median.ok THEN Effect(list, None, << >>, median)
        ELSE Effect(list, None, printed, Return(None))

\* Python: visualize_dataset(flights, output_dir): the charts saved, by name.
\* max(delays) raises ValueError when no flight is left after the cancelled
\* ones are dropped; the status chart is saved before that.  pie tells whether
\* the plotting library draws and saves the pie chart of an empty list.
visualize_dataset(list, pie) ==
    LET kept == SelectSeq(list, LAMBDA f : ~f.cancelled)
    IN  IF list = << >> /\ ~pie THEN Effect(list, << >>, << >>, Raise("ValueError"))
        ELSE IF kept = << >>
        THEN Effect(list, << "status_distribution.png" >>, << >>, Raise("ValueError"))
        ELSE Effect(list, << "status_distribution.png", "delay_histogram.png",
                             "weather_impact.png", "airline_performance.png" >>,
                    << [text |-> "Visualizations saved"] >>, Return(None))

\* main is called with the start date as a string, two counts and the flag
\* --visualize; days * flights_per_day <= MaxRecords.
MainCalls ==
    { [fn |-> "main", start_date |-> str, days |-> n, flights_per_day |-> k,
       visualize |-> v] :
        str \in GoodDateStrings \cup BadDateStrings,
        n \in -1..MaxDays,
        k \in -1..MaxFlightsPerDay, v \in BOOLEAN }

\* The values the generator may yield to each call of an iteration under main:
\* a cancelled flight, a flight on time and a delayed one.
MainDraws == { [D EXCEPT !.origin = {1}] : D \in DatasetDraws }

\* start_date = datetime.datetime.strptime(args.start_date, "%Y-%m-%d"), and
\* the call generate_dataset(start_date, args.days, args.flights_per_day) begins
\* when the date was parsed; main ends with the exception otherwise.
MainParse ==
    /\ pc = "main"
    /\ LET parsed == strptime(call.start_date)
       IN  IF parsed.ok
           THEN /\ start_date' = parsed.value
                /\ days' = call.days
                /\ flights_per_day' = call.flights_per_day
                /\ day' = 0
                /\ all_flights' = << >>
                /\ pc' = "dataset"
                /\ ret' = ret
           ELSE /\ pc' = "raised"
                /\ ret' = parsed
                /\ UNCHANGED << start_date, days, flights_per_day, day, all_flights >>
    /\ UNCHANGED << files, stdout, call, flight_date, num_flights, flights, rng, hist,
                    run, ret1 >>

\* A stage of main has had the given effect: the list it was passed, the file
\* `name`, the output; main goes on to `next` or ends with the exception.
Stage(effect, name, next) ==
    /\ all_flights' = effect.flights
    /\ files' = IF effect.file = None THEN files ELSE [files EXCEPT ![name] = effect.file]
    /\ stdout' = stdout \o effect.printed
    /\ pc' = IF effect.result.ok THEN next ELSE "raised"
    /\ ret' = IF ~effect.result.ok \/ next = "done" THEN effect.result ELSE ret
    /\ UNCHANGED << call, start_date, days, flights_per_day, day, flight_date,
                    num_flights, flights, rng, hist, run, ret1 >>

\* save_json(flights, args.output_json)
SaveJson == pc = "save_json" /\ Stage(save_json(all_flights), "json", "save_csv")

\* save_csv(flights, args.output_csv)
SaveCsv == pc = "save_csv" /\ Stage(save_csv(all_flights), "csv", "analyze")

\* analyze_dataset(flights), after which main ends unless --visualize was given.
AnalyzeDataset ==
    /\ pc = "analyze"
    /\ Stage(analyze_dataset(all_flights), "json",
             IF call.visualize THEN "visualize" ELSE "done")

\* visualize_dataset(flights, args.vis_dir), and main ends.
VisualizeDataset ==
    /\ pc = "visualize"
    /\ \E pie \in (IF all_flights = << >> THEN BOOLEAN ELSE {TRUE}) :
          Stage(visualize_dataset(all_flights, pie), "png", "done")

InitMain ==
    /\ call \in MainCalls
    /\ call.days * call.flights_per_day <= MaxRecords
    /\ pc = "main"
    /\ start_date = None
    /\ days = 0
    /\ flights_per_day = 0
    /\ day = 0
    /\ all_flights = << >>
    /\ flight_date = None
    /\ num_flights = 0
    /\ flights = << >>
    /\ ret = None
    /\ rng = [stream |-> << >>, pos |-> 0]
    /\ hist = << >>
    /\ run = 1
    /\ ret1 = None
    /\ files = NoFiles
    /\ stdout = << >>

NextMain ==
    \/ MainParse
    \/ DatasetDay
    \/ GenerateFlight(MainDraws)
    \/ ExtendDay
    \/ DatasetReturn
    \/ SaveJson
    \/ SaveCsv
    \/ AnalyzeDataset
    \/ VisualizeDataset

SpecMain == InitMain /\ [][NextMain]_vars

(***************************************************************************)
(* main for one day of flights whose delays fall in every bucket           *)
(***************************************************************************)
\* main is called for one day of at most MaxStatsFlights flights.
MaxStatsFlights == 3

StatsCalls ==
    { [fn |-> "main", start_date |-> << "2", "0", "2", "4", "-", "0", "2", "-", "2", "8" >>,
       days |-> 1, flights_per_day |-> k, visualize |-> FALSE] : k \in 0..MaxStatsFlights }

\* The values the generator may yield to each call of an iteration: a
\* cancelled flight, or a flight delayed by 0, 15, 29, 60, 119, 179, 180 or 353
\* minutes.
StatsDraws ==
    { [D EXCEPT !.origin = {1}, !.exp = {0, 17, 33, 68, 135, 203, 204, 400}] :
        D \in DatasetDraws }

InitStats ==
    /\ call \in StatsCalls
    /\ pc = "main"
    /\ start_date = None
    /\ days = 0
    /\ flights_per_day = 0
    /\ day = 0
    /\ all_flights = << >>
    /\ flight_date = None
    /\ num_flights = 0
    /\ flights = << >>
    /\ ret = None
    /\ rng = [stream |-> << >>, pos |-> 0]
    /\ hist = << >>
    /\ run = 1
    /\ ret1 = None
    /\ files = NoFiles
    /\ stdout = << >>

NextStats ==
    \/ MainParse
    \/ DatasetDay
    \/ GenerateFlight(StatsDraws)
    \/ ExtendDay
    \/ DatasetReturn
    \/ SaveJson
    \/ SaveCsv
    \/ AnalyzeDataset

SpecStats == InitStats /\ [][NextStats]_vars

(***************************************************************************)
(* performance_analyzer: analyze_security_overhead                        *)
(***************************************************************************)
\* A float of a DataFrame: NaN, or the quotient num / den (den = 0: inf).
NaN == [nan |-> TRUE, num |-> 0, den |-> 1]

F64(n, d) == [nan |-> FALSE, num |-> n, den |-> d]

\* Series.notna(): the values of a column that are not NaN.
NotNa(series) == SelectSeq(series, LAMBDA x : ~x.nan)

\* The sum of floats that are not NaN.
RECURSIVE SumF64(_)
SumF64(s) ==
    IF s = << >> THEN F64(0, 1)
    ELSE LET rest == SumF64(Tail(s))
         IN  F64(Head(s).num * rest.den + rest.num * Head(s).den, Head(s).den * rest.den)

\* Series.sum(): NaN is skipped, and the sum of nothing is 0.0.
SeriesSum(series) == SumF64(NotNa(series))

\* Series.mean(): NaN is skipped, and the mean of nothing is NaN.
SeriesMean(series) ==
    IF NotNa(series) = << >> THEN NaN
    ELSE LET total == SeriesSum(series)
         IN  F64(total.num, total.den * Len(NotNa(series)))

\* x / total * 100 on floats: NaN for NaN and for 0.0 / 0.0, inf for x / 0.0;
\* nothing is raised.
PercentOf(x, total) ==
    IF x.nan \/ total.nan \/ (x.num = 0 /\ total.num = 0) THEN NaN
    ELSE F64(x.num * total.den * 100, x.den * total.num)

\* df[name]: the column, row by row.
Column(df, name) == [i \in 1..Len(df.rows) |-> df.rows[i][name]]

\* pd.DataFrame({...}) of lists of one length: a table of rows.
DataFrame(columns, rows) == [columns |-> columns, rows |-> rows]

\* df[name] = values, values a list: ValueError ("Length of values does not
\* match length of index") unless it has one value for each row.
SetColumn(df, name, values) ==
    IF Len(values) # Len(df.rows) THEN Raise("ValueError")
    ELSE Return(DataFrame(Append(df.columns, name),
                          [i \in 1..Len(df.rows) |-> df.rows[i] @@ (name :> values[i])]))

\* has_verification = 'verification_time_ms' in df.columns
\*                    and df['verification_time_ms'].notna().any()
HasVerification(df) ==
    /\ "verification_time_ms" \in df.columns
    /\ NotNa(Column(df, "verification_time_ms")) # << >>

\* Python: analyze_security_overhead(df), df holding the three timing columns.
analyze_security_overhead(df) ==
    LET has_verification == HasVerification(df)
        components == IF has_verification
                      THEN << "Generation", "SUI Blockchain", "Execution", "Verification" >>
                      ELSE << "Generation", "SUI Blockchain", "Execution" >>
        times == IF has_verification
                 THEN << SeriesMean(Column(df, "generation_time_ms")),
                         SeriesMean(Column(df, "sui_time_ms")),
                         SeriesMean(Column(df, "execution_time_ms")),
                         SeriesMean(Column(df, "verification_time_ms")) >>
                 ELSE << SeriesMean(Column(df, "generation_time_ms")),
                         SeriesMean(Column(df, "sui_time_ms")),
                         SeriesMean(Column(df, "execution_time_ms")) >>
        security_df == DataFrame(<< "Component", "Time (ms)" >>,
                           [i \in 1..Len(components) |->
                              ("Component" :> components[i]) @@ ("Time (ms)" :> times[i])])
        total_time == SeriesSum(Column(security_df, "Time (ms)"))
        percentage == SetColumn(security_df, "Percentage",
                          [i \in 1..Len(times) |-> PercentOf(times[i], total_time)])
    IN  SetColumn(percentage.value, "Security Component",
                  << "Yes", "No", "Yes", IF has_verification THEN "Yes" ELSE None >>)

\* The rows of a performance log have at most MaxLogRows transactions.
MaxLogRows == 2

\* One transaction of the log after clean_data: the three timing columns, and
\* verification_time_ms when the log has the column; a time that is missing is
\* NaN.
LogRows(with_verification) ==
    { ("generation_time_ms" :> g) @@ ("sui_time_ms" :> u) @@ ("execution_time_ms" :> e)
      @@ (IF with_verification THEN ("verification_time_ms" :> v) ELSE << >>) :
        g \in {F64(0, 1), F64(120, 1), F64(300, 1)}, u \in {F64(450, 1)},
        e \in {NaN, F64(30, 1)}, v \in {NaN, F64(60, 1)} }

RECURSIVE Logs(_, _)
Logs(with_verification, n) ==
    IF n = 0 THEN { << >> }
    ELSE { Append(l, r) : l \in Logs(with_verification, n - 1),
                          r \in LogRows(with_verification) }

\* The DataFrames analyze_security_overhead is called with.
OverheadCalls ==
    UNION { { [fn |-> "analyze_security_overhead",
               df |-> DataFrame({"generation_time_ms", "sui_time_ms", "execution_time_ms"}
                                  \cup (IF w THEN {"verification_time_ms"} ELSE {}), l)] :
                l \in UNION { Logs(w, n) : n \in 0..MaxLogRows } } : w \in BOOLEAN }

CallAnalyzeSecurityOverhead ==
    /\ pc = "call"
    /\ call.fn = "analyze_security_overhead"
    /\ ret' = analyze_security_overhead(call.df)
    /\ pc' = IF ret'.ok THEN "done" ELSE "raised"
    /\ UNCHANGED << files, stdout, call, start_date, days, flights_per_day, day, all_flights,
                    flight_date, num_flights, flights, rng, hist, run, ret1 >>

InitOverhead ==
    /\ call \in OverheadCalls
    /\ pc = "call"
    /\ start_date = None
    /\ days = 0
    /\ flights_per_day = 0
    /\ day = 0
    /\ all_flights = << >>
    /\ flight_date = None
    /\ num_flights = 0
    /\ flights = << >>
    /\ ret = None
    /\ rng = [stream |-> << >>, pos |-> 0]
    /\ hist = << >>
    /\ run = 1
    /\ ret1 = None
    /\ files = NoFiles
    /\ stdout = << >>

NextOverhead == CallAnalyzeSecurityOverhead

SpecOverhead == InitOverhead /\ [][NextOverhead]_vars

(***************************************************************************)
(* Properties                                                              *)
(***************************************************************************)
Range(s) == { s[i] : i \in 1..Len(s) }

\* Whether the call under way returned a list of flight records.
ReturnedFlights ==
    pc = "done" /\ call.fn \in {"generate_flight_data", "generate_dataset"} /\ ret.ok

\* Every flight record the program holds: in the list of the day, in the
\* dataset, in the value returned.
Records ==
    Range(flights) \cup Range(all_flights)
    \cup (IF ReturnedFlights THEN Range(ret.value) ELSE {})

\* The direct call generate_flight_data(flight_date, 1) has made its flight:
\* rng.stream holds the values drawn for it, in the order of the calls.
OneFlight == call.fn = "generate_flight_data" /\ Len(flights) = 1

\* The minute an ISO string names, counted from the start of the calendar.
IsoMinutes(iso) == Ymd2Ord(iso[1], iso[2], iso[3]) * 1440 + iso[4] * 60 + iso[5]

\* The airports whose code differs from the code of the i-th one, in table order.
OtherAirports(i) ==
    [j \in 1..(Len(AIRPORTS) - 1) |-> IF j < i THEN AIRPORTS[j] ELSE AIRPORTS[j + 1]]

\* C1: every generated record has origin_code # destination_code, and the
\* destination is the airport that the single destination draw (the third
\* value taken from the generator) indexes in the airport list without the
\* origin: it is filtered, not redrawn.
C1_OriginDiffersFromDestination ==
    /\ \A f \in Records : f.origin_code # f.destination_code
    /\ OneFlight =>
         /\ flights[1].origin_code = AIRPORTS[rng.stream[2]].code
         /\ flights[1].destination_code = OtherAirports(rng.stream[2])[rng.stream[3]].code
         /\ rng.pos \in {9, 11}

\* A flight whose destination index is not below its origin index: the
\* filtered list and the airport list differ at that index.
C1_Witness ==
    /\ OneFlight
    /\ rng.stream[2] = 4
    /\ rng.stream[3] = 4
    /\ flights[1].origin_code = "JFK"
    /\ flights[1].destination_code = "LAX"

\* C2: a cancelled flight has delay_minutes 0, no estimated departure, no
\* estimated arrival and status "cancelled".
C2_CancelledFlight ==
    \A f \in Records :
        f.cancelled =>
            /\ f.delay_minutes = 0
            /\ f.estimated_departure = None
            /\ f.estimated_arrival = None
            /\ f.status = "cancelled"

\* A cancelled flight in a thunderstorm at 17:00.
C2_Witness ==
    /\ \E f \in Records :
          f.cancelled /\ f.weather_condition = "Thunderstorm" /\ f.scheduled_departure[4] = 17
    /\ OneFlight

\* C3: a flight that is not cancelled has both estimated times, each the
\* scheduled time plus delay_minutes minutes (to the second), so that the
\* estimated and the scheduled durations are equal.
C3_EstimatedIsScheduledPlusDelay ==
    \A f \in Records :
        ~f.cancelled =>
            /\ f.estimated_departure # None
            /\ f.estimated_arrival # None
            /\ IsoMinutes(f.estimated_departure)
                 = IsoMinutes(f.scheduled_departure) + f.delay_minutes
            /\ IsoMinutes(f.estimated_arrival)
                 = IsoMinutes(f.scheduled_arrival) + f.delay_minutes
            /\ f.estimated_departure[6] = f.scheduled_departure[6]
            /\ f.estimated_arrival[6] = f.scheduled_arrival[6]
            /\ IsoMinutes(f.estimated_arrival) - IsoMinutes(f.estimated_departure)
                 = IsoMinutes(f.scheduled_arrival) - IsoMinutes(f.scheduled_departure)

\* A delayed flight scheduled on the last day of a year whose estimated
\* departure falls in the next year.
C3_Witness ==
    \E f \in Records :
        /\ ~f.cancelled
        /\ f.delay_minutes > 0
        /\ f.scheduled_departure[1] = 2023
        /\ f.estimated_departure[1] = 2024

StatusLabels ==
    {"cancelled", "significantly_delayed", "delayed", "slightly_delayed", "on_time"}

\* The priority table of the status, row by row.
StatusOfTable(delay_minutes, cancelled) ==
    CASE cancelled -> "cancelled"
      [] ~cancelled /\ delay_minutes >= 180 -> "significantly_delayed"
      [] ~cancelled /\ delay_minutes >= 45 /\ delay_minutes < 180 -> "delayed"
      [] ~cancelled /\ delay_minutes >= 15 /\ delay_minutes < 45 -> "slightly_delayed"
      [] ~cancelled /\ delay_minutes < 15 -> "on_time"

\* C4: get_flight_status returns, for every delay and cancellation flag, one of
\* the five labels, the one of the priority table; and the status of every
\* generated record is that of its own delay_minutes and cancelled.
C4_StatusTable ==
    /\ (pc = "done" /\ call.fn = "get_flight_status") =>
          /\ ret.ok
          /\ ret.value \in StatusLabels
          /\ ret.value = StatusOfTable(call.delay_minutes, call.cancelled)
    /\ \A f \in Records :
          /\ f.status \in StatusLabels
          /\ f.status = StatusOfTable(f.delay_minutes, f.cancelled)

\* The call get_flight_status(45, False) has returned "delayed".
C4_Witness ==
    /\ pc = "done"
    /\ call.fn = "get_flight_status"
    /\ call.delay_minutes = 45
    /\ ~call.cancelled
    /\ ret.value = "delayed"

\* C5: delay_minutes is a natural number in every generated record, and
\* generate_delay_minutes returns 0 for a cancelled flight and a natural number
\* for every combination of the ends of the factor tables and every draw.
C5_DelayIsNatural ==
    /\ \A f \in Records : f.delay_minutes \in Nat
    /\ (pc = "done" /\ call.fn = "generate_delay_minutes") =>
          /\ ret.ok
          /\ ret.value \in Nat
          /\ call.cancelled => ret.value = 0 /\ rng.pos = 0
          /\ ~call.cancelled => rng.pos = 2

\* generate_delay_minutes has returned 0 for a cancelled flight, with the
\* largest factors.
C5_Witness ==
    /\ pc = "done"
    /\ call.fn = "generate_delay_minutes"
    /\ call.cancelled
    /\ call.weather_factor = 300
    /\ ret.value = 0

\* The records the log holds for a date, in the order they were generated.
LoggedFor(date) ==
    LET l == SelectSeq(hist, LAMBDA h : h.date = date)
    IN  [i \in 1..Len(l) |-> l[i].flight]

\* C6: for days >= 0 and flights_per_day >= 0, generate_dataset returns
\* days * flights_per_day records, and the records at positions
\* d * flights_per_day + 1 .. (d + 1) * flights_per_day are those generated for
\* the date start_date + d days, in the order of their generation; their
\* scheduled departure is on that date.
C6_DatasetDayMajor ==
    (pc = "done" /\ call.fn = "generate_dataset" /\ days >= 0 /\ flights_per_day >= 0) =>
        /\ ret.ok
        /\ Len(ret.value) = days * flights_per_day
        /\ \A d \in 0..(days - 1) :
              LET part == SubSeq(ret.value, d * flights_per_day + 1,
                                 (d + 1) * flights_per_day)
              IN  /\ Len(part) = flights_per_day
                  /\ part = LoggedFor(AddDays(start_date, d))
                  /\ \A i \in 1..Len(part) :
                        SubSeq(part[i].scheduled_departure, 1, 3)
                          = Ord2Ymd(start_date.ord + d)

\* Two days of two flights each have been returned, the two flights of the
\* first day differing and the second day being in the next month.
C6_Witness ==
    /\ pc = "done"
    /\ call.fn = "generate_dataset"
    /\ days = 2
    /\ flights_per_day = 2
    /\ Len(ret.value) = 4
    /\ ret.value[1] # ret.value[2]
    /\ ret.value[1].scheduled_departure[2] = 2
    /\ ret.value[3].scheduled_departure[2] = 2
    /\ ret.value[3].scheduled_departure[3] = 29

\* C7: the second run, made with the same arguments after the generator was
\* seeded as for the first, returns the records of the first run, field by
\* field, and has taken the same number of values from the generator.
C7_SameSeedSameRecords ==
    (run = 2 /\ pc = "done") =>
        /\ ret = ret1
        /\ rng.pos = Len(rng.stream)

\* Both runs have returned four records, a cancelled flight and a delayed one
\* among them.
C7_Witness ==
    /\ run = 2
    /\ pc = "done"
    /\ Len(ret1.value) = 4
    /\ Len(ret.value) = 4
    /\ \E f \in Range(ret.value) : f.cancelled
    /\ \E f \in Range(ret.value) : f.delay_minutes > 0

\* The weather multipliers as the cancellation rule lists them, in hundredths.
ListedMultiplier(label) ==
    CASE label = "Clear" -> 20
      [] label = "Cloudy" -> 30
      [] label = "Rain" -> 150
      [] label = "Snow" -> 1000
      [] label = "Fog" -> 600
      [] label = "Thunderstorm" -> 1500
      [] label = "High Winds" -> 800
      [] OTHER -> 100

\* min(0.5, 0.01 * multiplier * airline_factor), in millionths
ListedThreshold(label, airline_factor) ==
    Min(500000, ListedMultiplier(label) * airline_factor)

\* C8: determine_cancellation returns True exactly when the random() drawn is
\* below min(0.5, 0.01 * multiplier * airline_factor); a draw of 0.5 or more
\* never cancels; Thunderstorm with factor 1.0 has threshold 0.15 and Snow
\* with factor 10.0 has threshold 0.5.
C8_CancellationThreshold ==
    (pc = "done" /\ call.fn = "determine_cancellation") =>
        LET u     == rng.stream[1]
            label == call.weather_condition.condition
            limit == ListedThreshold(label, call.airline_factor)
        IN  /\ ret.ok
            /\ ret.value = (u.num * 1000000 < limit * u.den)
            /\ 2 * u.num >= u.den => ~ret.value
            /\ (label = "Thunderstorm" /\ call.airline_factor = 100) =>
                  ret.value = (u.num * 100 < 15 * u.den)
            /\ (label = "Snow" /\ call.airline_factor = 1000) =>
                  ret.value = (2 * u.num < u.den)

\* Snow with the factor 10.0: a draw of one half or more did not cancel, though
\* it is below the probability before the cap.
C8_Witness ==
    /\ pc = "done"
    /\ call.fn = "determine_cancellation"
    /\ call.weather_condition.condition = "Snow"
    /\ call.airline_factor = 1000
    /\ 2 * rng.stream[1].num >= rng.stream[1].den
    /\ ~ret.value

\* C9: scheduled_arrival is scheduled_departure plus a duration of 60 to 720
\* minutes; the estimated arrival of a flight that is not cancelled is that
\* same duration after its estimated departure; and the duration is the one
\* value drawn for it (the sixth value taken from the generator).
C9_ScheduledDuration ==
    /\ \A f \in Records :
          LET duration == IsoMinutes(f.scheduled_arrival) - IsoMinutes(f.scheduled_departure)
          IN  /\ duration >= 60
              /\ duration <= 720
              /\ f.scheduled_arrival[6] = f.scheduled_departure[6]
              /\ ~f.cancelled =>
                    IsoMinutes(f.estimated_arrival) - IsoMinutes(f.estimated_departure)
                      = duration
    /\ OneFlight =>
          IsoMinutes(flights[1].scheduled_arrival)
            - IsoMinutes(flights[1].scheduled_departure) = rng.stream[6]

\* A delayed flight of 720 minutes that leaves at 23:45 and arrives the next day.
C9_Witness ==
    /\ OneFlight
    /\ rng.stream[6] = 720
    /\ ~flights[1].cancelled
    /\ flights[1].delay_minutes > 0
    /\ flights[1].scheduled_departure[4] = 23
    /\ flights[1].scheduled_departure[5] = 45
    /\ flights[1].scheduled_arrival[3] # flights[1].scheduled_departure[3]

\* The weight of an entry: its weight field, or 1.0 when it has none.
WeightOf(item) == IF "weight" \in DOMAIN item THEN item.weight ELSE 100

\* How many of the random() values of the grid select the i-th entry.
Selecting(items, i) ==
    Cardinality({ u \in RandomGrid :
                    sample_from_weighted_list(items, "weight", u) = Return(items[i]) })

\* C10: for a non-empty list whose total weight is positive,
\* sample_from_weighted_list returns an entry of the list; the share of the
\* random() values that select an entry is its weight over the total weight,
\* to within one value of the grid; an entry of weight 0 is never selected and
\* an entry without a weight key is selected as one of weight 1.0.
C10_WeightedSample ==
    (pc = "done" /\ call.fn = "sample_from_weighted_list" /\ call.items # << >>) =>
        LET items == call.items
            total == SumSeq([i \in 1..Len(items) |-> WeightOf(items[i])])
        IN  total > 0 =>
              /\ ret.ok
              /\ ret.value \in Range(items)
              /\ WeightOf(ret.value) # 0
              /\ \A i \in 1..Len(items) :
                    LET share == Selecting(items, i) * total
                        due   == WeightOf(items[i]) * GridDen
                    IN  /\ share - due < total
                        /\ due - share < total
                        /\ WeightOf(items[i]) = 0 => Selecting(items, i) = 0
                        /\ WeightOf(items[i]) > 0 => Selecting(items, i) > 0

\* An entry without a weight key was returned from a list of three whose first
\* entry has weight 0.
C10_Witness ==
    /\ pc = "done"
    /\ call.fn = "sample_from_weighted_list"
    /\ Len(call.items) = 3
    /\ call.items[1] = [label |-> 1, weight |-> 0]
    /\ ret.ok
    /\ "weight" \notin DOMAIN ret.value

\* Whether a list is degenerate: empty, or all its weights are zero.
Degenerate(items) ==
    items = << >> \/ \A i \in 1..Len(items) : WeightOf(items[i]) = 0

\* The call sample_from_weighted_list(items, "weight") on a degenerate list is over.
DegenerateCallDone ==
    pc = "done" /\ call.fn = "sample_from_weighted_list" /\ Degenerate(call.items)

\* C11 (as stated): on an empty list and on a list whose weights are all zero,
\* sample_from_weighted_list returns no entry and fails with a division by zero.
C11_DegenerateDividesByZero ==
    DegenerateCallDone => (~ret.ok /\ ret.error = "ZeroDivisionError")

\* C11 (amended): on a degenerate list sample_from_weighted_list returns no
\* entry, raises to its caller and draws nothing from the generator; the
\* error is ZeroDivisionError when the list is not empty and all its weights are
\* zero, and IndexError (raised inside random.choices, no division being made)
\* when the list is empty.
C11_DegenerateRaises ==
    DegenerateCallDone =>
        /\ ~ret.ok
        /\ rng.pos = 0
        /\ call.items # << >> => ret.error = "ZeroDivisionError"
        /\ call.items = << >> => ret.error = "IndexError"

\* The call on a list of two entries of weight 0 has raised ZeroDivisionError.
C11_Witness ==
    /\ DegenerateCallDone
    /\ Len(call.items) = 2
    /\ ~ret.ok
    /\ ret.error = "ZeroDivisionError"

\* main was called with a start date that does not parse as YYYY-MM-DD.
BadStartDate == call.fn = "main" /\ call.start_date \in BadDateStrings

\* C12: when the start date does not parse, main ends with the parse error
\* (ValueError) at its first step: generate_dataset is never entered, no
\* record is generated, the generator yields no value, nothing is printed
\* and no output file is written.
C12_BadDateAbortsBeforeGeneration ==
    BadStartDate =>
        /\ pc \in {"main", "raised"}
        /\ pc = "raised" => ret = Raise("ValueError")
        /\ hist = << >>
        /\ all_flights = << >>
        /\ flights = << >>
        /\ rng = [stream |-> << >>, pos |-> 0]
        /\ files = NoFiles
        /\ stdout = << >>

\* main has ended with ValueError for 2023-02-29, asked for two days of two flights.
C12_Witness ==
    /\ BadStartDate
    /\ call.start_date = << "2", "0", "2", "3", "-", "0", "2", "-", "2", "9" >>
    /\ call.days = 2
    /\ call.flights_per_day = 2
    /\ pc = "raised"
    /\ ret = Raise("ValueError")

\* The position of a condition label in WEATHER_CONDITIONS.
WeatherIndex(label) ==
    CHOOSE i \in 1..Len(WEATHER_CONDITIONS) : WEATHER_CONDITIONS[i].condition = label

\* The configured probabilities of the conditions before the i-th, in hundredths.
ProbabilityBefore(i) ==
    SumSeq([j \in 1..(i - 1) |-> WEATHER_CONDITIONS[j].probability])

\* C13: the probabilities of the seven weather conditions sum to 1.0 (100
\* hundredths), and a flight gets the condition whose own interval of
\* configured probability holds the random() drawn for the weather (the seventh
\* value taken from the generator): the condition i is selected exactly when
\* p1 + .. + p(i-1) <= random() < p1 + .. + pi, an interval as long as its
\* configured probability.
C13_WeatherProbabilities ==
    /\ Len(WEATHER_CONDITIONS) = 7
    /\ SumSeq([i \in 1..Len(WEATHER_CONDITIONS) |-> WEATHER_CONDITIONS[i].probability]) = 100
    /\ OneFlight =>
          LET u == rng.stream[7]
              i == WeatherIndex(flights[1].weather_condition)
          IN  /\ ProbabilityBefore(i) * u.den <= u.num * 100
              /\ u.num * 100 < ProbabilityBefore(i + 1) * u.den

\* The draw 0.95 has selected Thunderstorm, whose interval is [0.95, 0.98).
C13_Witness ==
    /\ OneFlight
    /\ rng.stream[7] = Frac(95, 100)
    /\ flights[1].weather_condition = "Thunderstorm"

\* The second run, made for the days after the first, has returned.
SkippedRunDone == run = 2 /\ pc = "done" /\ "generator" \in DOMAIN call

\* The records the first run returned for the days after its first.
LaterDays == SubSeq(ret1.value, flights_per_day + 1, Len(ret1.value))

\* C14 (as stated): the records of a day depend only on its date and on
\* flights_per_day: a run that leaves out the first day returns, for the dates
\* that remain, the records the first run returned for them, whatever the
\* first day was and wherever the generator stands.
C14_RecordsDependOnDateOnly ==
    SkippedRunDone => ret.value = LaterDays

\* C14 (amended): the days depend on one another through the shared generator
\* and through nothing else.  A run that leaves out the first day returns the
\* records the first run returned for the later dates when the generator is
\* put in the state it had at the start of the second day; and the number of
\* values the generator has yielded before a flight is 9 for every cancelled
\* flight before it plus 11 for every other one, so it depends on how many
\* flights came before and on which of them were cancelled.
C14_DaysDependThroughGeneratorOnly ==
    /\ (SkippedRunDone /\ call.generator = "restored") => ret.value = LaterDays
    /\ \A i \in 1..Len(hist) :
          hist[i].pos - hist[1].pos
            = SumSeq([j \in 1..(i - 1) |-> IF hist[j].flight.cancelled THEN 9 ELSE 11])

\* Two days of two flights, then the second day alone from the restored
\* generator: the same two records, the first day having had a cancelled
\* flight and a flight that was not.
C14_Witness ==
    /\ SkippedRunDone
    /\ call.generator = "restored"
    /\ Len(ret1.value) = 4
    /\ ret1.value[1].cancelled
    /\ ~ret1.value[2].cancelled
    /\ Len(ret.value) = 2
    /\ ret.value[1] # ret.value[2]
    /\ ret.value = LaterDays

\* The records generated so far, in the order of their generation.
Generated == [i \in 1..Len(hist) |-> hist[i].flight]

\* main is past generate_dataset: in one of its later stages, or over.
AfterGeneration == call.fn = "main" /\ pc \notin {"main", "dataset", "flights"}

\* C15: once generate_dataset has returned to main, the list of records stays
\* what was generated, record by record and in order, through save_json,
\* save_csv, analyze_dataset and visualize_dataset, whether they return or
\* raise; and what each stage has written or printed counts that same list.
C15_StagesLeaveRecordsUnchanged ==
    AfterGeneration =>
        /\ all_flights = Generated
        /\ files.json # None => Len(files.json.array) = Len(Generated)
        /\ files.csv # None => Len(files.csv.rows) = Len(Generated)
        /\ \A i \in 1..Len(stdout) :
              /\ stdout[i].text = "Saved" => stdout[i].flights = Len(Generated)
              /\ stdout[i].text = "Flight Dataset Statistics"
                    => stdout[i].total_flights = Len(Generated)

\* main is over after all four stages, with four records, one cancelled and
\* one delayed, both files and the four charts.
C15_Witness ==
    /\ AfterGeneration
    /\ pc = "done"
    /\ call.visualize
    /\ Len(all_flights) = 4
    /\ \E i \in 1..4 : all_flights[i].cancelled
    /\ \E i \in 1..4 : all_flights[i].delay_minutes > 0
    /\ files.json # None
    /\ files.csv # None
    /\ Len(files.png) = 4

\* The seventeen fields of a flight record.
FlightRecordFields ==
    {"flight_number", "airline_code", "airline_name", "origin_code", "origin_name",
     "destination_code", "destination_name", "scheduled_departure",
     "estimated_departure", "actual_departure", "scheduled_arrival",
     "estimated_arrival", "actual_arrival", "status", "delay_minutes", "cancelled",
     "weather_condition"}

\* Whether a CSV row is the record it was written from under the header: the
\* value of each column's field, the empty string standing for None.
RowOf(row, header, flight) ==
    /\ Len(row) = Len(header)
    /\ \A k \in 1..Len(header) :
          IF header[k] \in {"estimated_departure", "actual_departure",
                            "estimated_arrival", "actual_arrival"}
          THEN IF flight[header[k]] = None THEN row[k] = ""
               ELSE row[k] = flight[header[k]]
          ELSE row[k] = flight[header[k]]

\* C16: every record, cancelled or not, has exactly the seventeen fields, with
\* actual_departure and actual_arrival None; and the CSV file, when save_csv
\* has been called on a list that is not empty, has a header of these
\* seventeen fields, once each, and one row per record, each row giving the
\* record's value for every column (so save_csv has raised nothing).
C16_HomogeneousSchema ==
    /\ Cardinality(FlightRecordFields) = 17
    /\ \A f \in Records :
          /\ DOMAIN f = FlightRecordFields
          /\ f.actual_departure = None
          /\ f.actual_arrival = None
    /\ (call.fn = "main" /\ files.json # None /\ pc # "save_csv") =>
          IF all_flights = << >> THEN files.csv = None
          ELSE /\ files.csv # None
               /\ Len(files.csv.header) = 17
               /\ { files.csv.header[k] : k \in 1..17 } = FlightRecordFields
               /\ Len(files.csv.rows) = Len(all_flights)
               /\ \A i \in 1..Len(all_flights) :
                     RowOf(files.csv.rows[i], files.csv.header, all_flights[i])

\* The CSV file was written for a list whose first record is a cancelled
\* flight and whose second is not.
C16_Witness ==
    /\ call.fn = "main"
    /\ pc = "analyze"
    /\ Len(all_flights) >= 2
    /\ all_flights[1].cancelled
    /\ ~all_flights[2].cancelled
    /\ files.csv # None
    /\ files.csv.rows[1][9] = ""
    /\ files.csv.rows[2][9] = all_flights[2].estimated_departure

\* The weekday (Monday is 0) of the date an ISO string names.
IsoWeekday(iso) == (Ymd2Ord(iso[1], iso[2], iso[3]) + 6) % 7

\* C17: the tables are total over what can be sampled: TIME_FACTORS has the
\* keys 0..23, DAY_FACTORS the keys 0..6 and weather_multiplier the label of
\* every entry of WEATHER_CONDITIONS; so the hour, the weekday and the weather
\* of every generated flight are keys of their tables and the default 1.0 of
\* the three lookups is never taken.
C17_DefaultsUnreachable ==
    /\ DOMAIN TIME_FACTORS = 0..23
    /\ DOMAIN DAY_FACTORS = 0..6
    /\ \A i \in 1..Len(WEATHER_CONDITIONS) :
          WEATHER_CONDITIONS[i].condition \in DOMAIN weather_multiplier
    /\ \A f \in Records :
          /\ f.scheduled_departure[4] \in DOMAIN TIME_FACTORS
          /\ IsoWeekday(f.scheduled_departure) \in DOMAIN DAY_FACTORS
          /\ f.weather_condition \in DOMAIN weather_multiplier
    /\ OneFlight => rng.stream[4] \in DOMAIN TIME_FACTORS

\* A flight that leaves at midnight on a Sunday and is not cancelled.
C17_Witness ==
    /\ OneFlight
    /\ rng.stream[4] = 0
    /\ flights[1].scheduled_departure[4] = 0
    /\ IsoWeekday(flights[1].scheduled_departure) = 6
    /\ ~flights[1].cancelled

\* The values of a table of factors.
FactorsOf(table, key) == { table[i][key] : i \in 1..Len(table) }

\* mean_delay of the flight that the direct call has generated, from the
\* values drawn for it and the date of its departure, in thousandths of a minute.
MeanDelayOfFlight ==
    MeanDelay(AIRLINES[rng.stream[1]].delay_factor,
              AIRPORTS[rng.stream[2]].congestion_factor,
              OtherAirports(rng.stream[2])[rng.stream[3]].congestion_factor,
              WEATHER_CONDITIONS[WeatherIndex(flights[1].weather_condition)].delay_factor,
              TIME_FACTORS[rng.stream[4]],
              DAY_FACTORS[IsoWeekday(flights[1].scheduled_departure)])

\* C18: every factor of the five reference tables is above zero; hence the
\* mean delay of every flight that is generated, and its half, are above
\* zero, generate_delay_minutes raises nothing (no division by zero in the two
\* rates 1 / (mean_delay / 2) and 1 / (mean_delay * 2)) for any combination of
\* the smallest and largest factors, and generate_flight_data never raises.
C18_FactorsPositive ==
    /\ \A x \in FactorsOf(AIRLINES, "delay_factor") : x > 0
    /\ \A x \in FactorsOf(AIRPORTS, "congestion_factor") : x > 0
    /\ \A x \in FactorsOf(WEATHER_CONDITIONS, "delay_factor") : x > 0
    /\ \A h \in DOMAIN TIME_FACTORS : TIME_FACTORS[h] > 0
    /\ \A d \in DOMAIN DAY_FACTORS : DAY_FACTORS[d] > 0
    /\ call.fn = "generate_flight_data" => pc # "raised"
    /\ OneFlight => (MeanDelayOfFlight > 0 /\ MeanDelayOfFlight \div 2 > 0)
    /\ (pc = "done" /\ call.fn = "generate_delay_minutes") =>
          /\ ret.ok
          /\ MeanDelay(call.airline_factor, call.origin_factor, call.destination_factor,
                       call.weather_factor, call.time_factor, call.day_factor) \div 2 > 0

\* A flight of the airline, the origin, the weather and the hour with the
\* smallest factors, on a Wednesday, that is not cancelled.
C18_Witness ==
    /\ OneFlight
    /\ flights[1].airline_code = "LX"
    /\ flights[1].origin_code = "SIN"
    /\ flights[1].weather_condition = "Clear"
    /\ flights[1].scheduled_departure[4] = 1
    /\ IsoWeekday(flights[1].scheduled_departure) = 2
    /\ ~flights[1].cancelled
    /\ MeanDelayOfFlight > 0

\* C19: every record generated for a flight_date has its scheduled departure
\* on the calendar date of flight_date, at an hour of 0..23, a minute of 0, 15,
\* 30 or 45 and zero seconds, with no microseconds, whatever time of day
\* flight_date carries; and the records generate_dataset returns for the day
\* index d (positions d * flights_per_day + 1 .. (d + 1) * flights_per_day)
\* have their scheduled departure on the date of start_date plus d days.
C19_ScheduledOnFlightDate ==
    /\ \A i \in 1..Len(hist) :
          LET sd == hist[i].flight.scheduled_departure
          IN  /\ Len(sd) = 6
              /\ Ymd2Ord(sd[1], sd[2], sd[3]) = hist[i].date.ord
              /\ sd[4] \in 0..23
              /\ sd[5] \in {0, 15, 30, 45}
              /\ sd[6] = 0
    /\ (pc = "done" /\ call.fn = "generate_dataset" /\ days >= 0 /\ flights_per_day >= 0) =>
          /\ Len(ret.value) = days * flights_per_day
          /\ \A d \in 0..(days - 1) : \A j \in 1..flights_per_day :
                LET sd == ret.value[d * flights_per_day + j].scheduled_departure
                IN  /\ Len(sd) = 6
                    /\ Ymd2Ord(sd[1], sd[2], sd[3]) = start_date.ord + d
                    /\ sd[6] = 0

\* generate_dataset, called with 2024-12-30T18:30:15.5 for three days of one
\* flight, has returned: the third flight leaves on 2025-01-01 at 23:45:00 and
\* is estimated for the day after.
C19_Witness ==
    /\ pc = "done"
    /\ call.fn = "generate_dataset"
    /\ start_date.hour = 18
    /\ start_date.microsecond # 0
    /\ Len(ret.value) = 3
    /\ ret.value[3].scheduled_departure = << 2025, 1, 1, 23, 45, 0 >>
    /\ ~ret.value[3].cancelled
    /\ ret.value[3].estimated_departure[3] = 2

\* range(n) has n elements, none when n is negative.
RangeLen(n) == IF n < 0 THEN 0 ELSE n

\* The iterations made so far number at most range(days) x range(flights_per_day),
\* and exactly that many once generate_dataset has returned; each iteration
\* has appended one record and taken 9 values from the generator when the
\* flight is cancelled and 11 when it is not, and no value was taken
\* otherwise.
IterationsAndDraws ==
    /\ Len(hist) <= RangeLen(days) * RangeLen(flights_per_day)
    /\ pc = "done" =>
          /\ Len(hist) = RangeLen(days) * RangeLen(flights_per_day)
          /\ (days >= 0 /\ flights_per_day >= 0) => Len(hist) = days * flights_per_day
          /\ Len(ret.value) = Len(hist)
    /\ Len(hist) = Len(all_flights) + Len(flights) \/ pc = "dataset" \/ pc = "done"
    /\ \A i \in 1..Len(hist) :
          LET next  == IF i < Len(hist) THEN hist[i + 1].pos ELSE rng.pos
              taken == next - hist[i].pos
          IN  /\ taken \in {9, 11}
              /\ taken = 9 <=> hist[i].flight.cancelled
    /\ hist = << >> => rng.pos = 0
    /\ rng.pos <= 11 * Len(hist)

\* C20: generate_dataset terminates: it returns after exactly
\* days x flights_per_day iterations (none when either is negative), and each
\* iteration takes a bounded number of values from the generator, 9 for a
\* cancelled flight and 11 for any other, with no draw made again.
C20_TerminatesAfterBoundedDraws ==
    []IterationsAndDraws /\ <>(pc = "done")

\* generate_dataset has returned after four iterations, two of them for
\* cancelled flights: 40 values were taken from the generator.
C20_Witness ==
    /\ pc = "done"
    /\ days = 2
    /\ flights_per_day = 2
    /\ Len(hist) = 4
    /\ Cardinality({ i \in 1..4 : hist[i].flight.cancelled }) = 2
    /\ rng.pos = 40

\* analyze_security_overhead was called and has ended.
OverheadCallEnded == call.fn = "analyze_security_overhead" /\ pc # "call"

\* C21: analyze_security_overhead returns normally in both cases: a table of
\* four rows (Generation, SUI Blockchain, Execution, Verification) when the
\* log has verification times and of three rows (the first three) when it has
\* none, every row with a 'Security Component' label.
C21_OneLabelPerRow ==
    OverheadCallEnded =>
       /\ pc = "done"
       /\ ret.ok
       /\ [i \in 1..Len(ret.value.rows) |-> ret.value.rows[i]["Component"]]
             = IF HasVerification(call.df)
               THEN << "Generation", "SUI Blockchain", "Execution", "Verification" >>
               ELSE << "Generation", "SUI Blockchain", "Execution" >>
       /\ \A i \in 1..Len(ret.value.rows) :
             "Security Component" \in DOMAIN ret.value.rows[i]

\* A log of two transactions that has the column verification_time_ms and no
\* time in it: the call ended with ValueError, four labels for three rows.
C21_Witness ==
    /\ OverheadCallEnded
    /\ Len(call.df.rows) = 2
    /\ "verification_time_ms" \in call.df.columns
    /\ ~HasVerification(call.df)
    /\ pc = "raised"
    /\ ret = Raise("ValueError")

\* main has called analyze_dataset and the call has ended.
Analyzed == call.fn = "main" /\ (pc = "done" \/ (pc = "raised" /\ files.csv # None))

\* The line of statistics analyze_dataset printed.
Statistics == stdout[Len(stdout)]

\* The flights of the dataset that are not cancelled.
NotCancelled == { i \in 1..Len(all_flights) : ~all_flights[i].cancelled }

BucketLabels ==
    << "0-15 min", "15-30 min", "30-60 min", "60-120 min", "120-180 min", "180+ min" >>

\* The ranges of the six buckets, the last without an upper end.
BucketOf(d) ==
    { b \in 1..6 : << 0, 15, 30, 60, 120, 180 >>[b] <= d
                   /\ (b = 6 \/ d < << 15, 30, 60, 120, 180 >>[b]) }

\* C22: the six delay buckets partition the delays: every flight that is not
\* cancelled has a delay in exactly one bucket and is counted there, so the
\* counts sum to the number of these flights, and the count of '180+ min' is
\* the number of records with the status "significantly_delayed".
C22_BucketsPartitionDelays ==
    (Analyzed /\ pc = "done") =>
       /\ \A i \in NotCancelled : Cardinality(BucketOf(all_flights[i].delay_minutes)) = 1
       /\ IF NotCancelled = {} THEN Statistics.delays = None
          ELSE LET counted == Statistics.delays.buckets
               IN  /\ DOMAIN counted = Range(BucketLabels)
                   /\ \A b \in 1..6 :
                         counted[BucketLabels[b]].count
                            = Cardinality({ i \in NotCancelled :
                                              b \in BucketOf(all_flights[i].delay_minutes) })
                   /\ SumSeq([b \in 1..6 |-> counted[BucketLabels[b]].count])
                         = Cardinality(NotCancelled)
                   /\ counted["180+ min"].count
                         = Cardinality({ i \in 1..Len(all_flights) :
                                           all_flights[i].status = "significantly_delayed" })

\* Statistics of three flights, delayed by 15, 179 and 180 minutes: one flight
\* in each of '15-30 min', '120-180 min' and '180+ min'.
C22_Witness ==
    /\ Analyzed
    /\ pc = "done"
    /\ Len(all_flights) = 3
    /\ all_flights[1].delay_minutes = 15
    /\ all_flights[2].delay_minutes = 179
    /\ all_flights[3].delay_minutes = 180
    /\ Statistics.delays.buckets["15-30 min"].count = 1
    /\ Statistics.delays.buckets["120-180 min"].count = 1
    /\ Statistics.delays.buckets["180+ min"].count = 1
    /\ Statistics.delays.buckets["0-15 min"].count = 0

\* The quotients of the statistics printed: the percentage of each status, the
\* average and the bucket percentages of the delays, the averages by weather
\* and by airline.
PrintedQuotients ==
    { Statistics.status[st].percentage : st \in DOMAIN Statistics.status }
    \cup (IF Statistics.delays = None THEN {}
          ELSE { Statistics.delays.average }
               \cup { Statistics.delays.buckets[b].percentage :
                        b \in DOMAIN Statistics.delays.buckets })
    \cup { Statistics.weather[w].avg_delay : w \in DOMAIN Statistics.weather }
    \cup { Statistics.airline[a].avg_delay : a \in DOMAIN Statistics.airline }

=============================================================================
